---- MODULE Spec2Model ----
(***************************************************************************)
(* Face division of the Carve CSG library                                  *)
(* (src/lib/intersect_face_division.cpp).                                  *)
(*                                                                         *)
(* Vertex handles are integers; the order of the integers is the address   *)
(* order of the handles.  Every vertex has integer coordinates in the      *)
(* projection plane of the face, so that the 2D predicates of the geometry *)
(* kernel (orient2d, signedArea, point in polygon, angle order) are exact. *)
(***************************************************************************)
EXTENDS Integers, Sequences, FiniteSets, TLC

(***************************************************************************)
(* Bounds of the model.                                                    *)
(***************************************************************************)
\* largest number of entries of face_split_edges[F] that Init draws
MaxSplit == 4

\* largest number of edges that composeEdgesIntoPaths is given on its own
MaxEdges == 5

(***************************************************************************)
(* Sequences.                                                              *)
(***************************************************************************)
Rev(s) == [i \in 1..Len(s) |-> s[Len(s) + 1 - i]]

Range(s) == {s[i] : i \in 1..Len(s)}

\* std::find: the first position of v in s, Len(s)+1 (the end iterator) if none
Find(s, v) ==
  IF \E i \in 1..Len(s) : s[i] = v
  THEN CHOOSE i \in 1..Len(s) : s[i] = v /\ \A k \in 1..(i - 1) : s[k] # v
  ELSE Len(s) + 1

\* std::copy(s.begin() + a, s.begin() + b): the 0-based half-open range [a, b)
Copy(s, a, b) == IF b <= a THEN <<>> ELSE SubSeq(s, a + 1, b)

RECURSIVE Flatten(_)
Flatten(ss) == IF ss = <<>> THEN <<>> ELSE Head(ss) \o Flatten(Tail(ss))

RECURSIVE SumSeq(_)
SumSeq(s) == IF s = <<>> THEN 0 ELSE Head(s) + SumSeq(Tail(s))

\* the directed edges of a closed loop, as a sequence (closing pair included)
LoopEdges(l) ==
  [i \in 1..Len(l) |-> <<l[i], l[IF i = Len(l) THEN 1 ELSE i + 1]>>]

\* how often x occurs in the sequence s
Count(s, x) == Cardinality({i \in 1..Len(s) : s[i] = x})

(***************************************************************************)
(* The vertex pool and the polyhedron.                                     *)
(*   1 A(0,0)  2 B(6,0)  3 C(6,6)  4 D(0,6)     corners of face 1          *)
(*   5 M(2,0)  6 N(4,0)                         intersections on edge AB   *)
(*   7 P(3,4)  8 Q(5,4)  9 R(4,5)  10 S(2,2)    intersections inside face 1*)
(*   11 E(3,-3)                                 third corner of face 2     *)
(*   12 A'(0,0)                                 canonical vertex of A      *)
(***************************************************************************)
Coord ==
  << <<0, 0>>, <<6, 0>>, <<6, 6>>, <<0, 6>>, <<2, 0>>, <<4, 0>>,
     <<3, 4>>, <<5, 4>>, <<4, 5>>, <<2, 2>>, <<3, -3>>, <<0, 0>> >>

Vertex == 1..Len(Coord)

\* face->vertices and face->edges, in the same order
Faces ==
  << [vertices |-> <<1, 2, 3, 4>>, edges |-> <<"AB", "BC", "CD", "DA">>],
     [vertices |-> <<2, 1, 11>>, edges |-> <<"AB", "AE", "EB">>] >>

\* edge->v1
EdgeV1 == [AB |-> 1, BC |-> 2, CD |-> 3, DA |-> 4, AE |-> 1, EB |-> 11]

(***************************************************************************)
(* Geometry kernel (carve::geom2d, carve::poly::face).                     *)
(***************************************************************************)
\* face->project(v->v): all faces of the pool lie in one plane
project(v) == Coord[v]

\* > 0 when a, b, c turn counter-clockwise
orient2d(a, b, c) ==
  (b[1] - a[1]) * (c[2] - a[2]) - (b[2] - a[2]) * (c[1] - a[1])

\* P2::operator<
P2Less(a, c) == a[1] < c[1] \/ (a[1] = c[1] /\ a[2] < c[2])

\* carve::geom2d::signedArea of projected points, times two: the sum of
\* (y[i+1] + y[i]) * (x[i+1] - x[i]) over the closed polygon.  It is negative
\* for a counter-clockwise polygon and positive for a clockwise one.
signedArea(pts) ==
  LET n == Len(pts)
      nxt(i) == IF i = n THEN 1 ELSE i + 1
  IN SumSeq([i \in 1..n |->
       (pts[nxt(i)][2] + pts[i][2]) * (pts[nxt(i)][1] - pts[i][1])])

Projected(loop) == [i \in 1..Len(loop) |-> project(loop[i])]

(***************************************************************************)
(* The data bundle (carve::csg::detail::Data).                             *)
(***************************************************************************)
\* carve::csg::map_vertex
map_vertex(vmap, v) == IF v \in DOMAIN vmap THEN vmap[v] ELSE v

\* carve::csg::ordered_edge
ordered_edge(v1, v2) == IF v1 < v2 THEN <<v1, v2>> ELSE <<v2, v1>>

(***************************************************************************)
(* assembleBaseLoop.                                                       *)
(***************************************************************************)
\* DividedInsert without the test of line 755: always in stored order
DividedInsertStored(face, d, j) ==
  LET e == face.edges[j]
  IN IF e \in DOMAIN d.divided_edges THEN d.divided_edges[e] ELSE <<>>

\* the intersection vertices of edge j of the face, in the face's direction
DividedInsert(face, d, j) ==
  LET e == face.edges[j]
  IN IF e \in DOMAIN d.divided_edges
     THEN IF EdgeV1[e] = face.vertices[j]
          THEN d.divided_edges[e]
          ELSE Rev(d.divided_edges[e])
     ELSE <<>>

RECURSIVE AssembleFrom(_, _, _)
AssembleFrom(face, d, j) ==
  IF j > Len(face.vertices) THEN <<>>
  ELSE <<map_vertex(d.vmap, face.vertices[j])>> \o DividedInsert(face, d, j)
       \o AssembleFrom(face, d, j + 1)

assembleBaseLoop(face, d) == AssembleFrom(face, d, 1)

(***************************************************************************)
(* Geometry kernel, continued: point in polygon, boxes, angles.            *)
(***************************************************************************)
\* the winding number of the closed polygon pts around the point p
Winding(pts, p) ==
  LET n == Len(pts)
      nxt(i) == IF i = n THEN 1 ELSE i + 1
      w(i) == LET a == pts[i]
                  b == pts[nxt(i)]
              IN IF a[2] <= p[2] /\ p[2] < b[2] /\ orient2d(a, b, p) > 0 THEN 1
                 ELSE IF b[2] <= p[2] /\ p[2] < a[2] /\ orient2d(a, b, p) < 0
                      THEN -1 ELSE 0
  IN SumSeq([i \in 1..n |-> w(i)])

\* p lies on the closed segment a b
OnSegment(a, b, p) ==
  /\ orient2d(a, b, p) = 0
  /\ (p[1] - a[1]) * (p[1] - b[1]) <= 0
  /\ (p[2] - a[2]) * (p[2] - b[2]) <= 0

OnBoundary(pts, p) ==
  \E i \in 1..Len(pts) :
    OnSegment(pts[i], pts[IF i = Len(pts) THEN 1 ELSE i + 1], p)

\* carve::geom2d::pointInPolySimple: strict interior
pointInPolySimple(pts, p) == ~OnBoundary(pts, p) /\ Winding(pts, p) # 0

\* carve::geom2d::pointInPoly(pts, p).iclass != POINT_OUT
pointInPolyNotOut(pts, p) == OnBoundary(pts, p) \/ Winding(pts, p) # 0

\* aabb<2>::fit and aabb<2>::intersects(point)
aabbIntersects(pts, p) ==
  /\ \E i \in 1..Len(pts) : pts[i][1] <= p[1]
  /\ \E i \in 1..Len(pts) : pts[i][1] >= p[1]
  /\ \E i \in 1..Len(pts) : pts[i][2] <= p[2]
  /\ \E i \in 1..Len(pts) : pts[i][2] >= p[2]

Cross2(u, w) == u[1] * w[2] - u[2] * w[1]
Dot2(u, w) == u[1] * w[1] + u[2] * w[2]
Sub2(a, b) == <<a[1] - b[1], a[2] - b[2]>>

\* ANG(in_ang - out.ang) lies in [0, pi) (0) or in [pi, 2 pi) (1), where
\* in_ang is the direction of u and out.ang the direction of w
AngHalf(u, w) ==
  IF Cross2(w, u) > 0 \/ (Cross2(w, u) = 0 /\ Dot2(w, u) > 0) THEN 0 ELSE 1

\* ANG(in_ang - ang(w1)) < ANG(in_ang - ang(w2)), in_ang the direction of u
AngLess(u, w1, w2) ==
  \/ AngHalf(u, w1) < AngHalf(u, w2)
  \/ AngHalf(u, w1) = AngHalf(u, w2) /\ Cross2(w2, w1) > 0

(***************************************************************************)
(* composeEdgesIntoPaths.  vertex_graph is a function from the vertices    *)
(* that still have links to their sets of neighbours.                      *)
(***************************************************************************)
\* build graph from edges.
BuildVertexGraph(edges) ==
  LET vs == {e[1] : e \in edges} \cup {e[2] : e \in edges}
  IN [v \in vs |-> {e[2] : e \in {x \in edges : x[1] = v}}
                   \cup {e[1] : e \in {x \in edges : x[2] = v}}]

\* find the endpoints in the graph.
FindEndpoints(g, extra_endpoints) ==
  {v \in DOMAIN g : Cardinality(g[v]) # 2}
  \cup {v \in Range(extra_endpoints) : v \in DOMAIN g}

\* lines 1168-1179 and 1210-1218: remove the link v - n, then erase v and n
\* from the map when they have no link left.  When n is v and the link was
\* the last one of v, q is p: the entry is erased through p (line 1175 /
\* 1217) and then read through q (line 1176 / 1218).  The read of the
\* erased entry is undefined: the program ends with a segmentation fault
\* (crash TRUE), or it survives the read and goes on with the entry of v
\* erased (crash FALSE).  Every other removal has its one outcome
RemoveLink(g, v, n) ==
  LET g1 == [x \in DOMAIN g |->
               IF x = v THEN g[x] \ {n} ELSE IF x = n THEN g[x] \ {v} ELSE g[x]]
      keep == {x \in DOMAIN g : ~(x \in {v, n} /\ g1[x] = {})}
      g2 == [x \in keep |-> g1[x]]
  IN IF v = n /\ g1[v] = {}
     THEN {[crash |-> TRUE, graph |-> g2], [crash |-> FALSE, graph |-> g2]}
     ELSE {[crash |-> FALSE, graph |-> g2]}

\* PathWalks that does not stop at an endpoint other than its start
RECURSIVE PathWalksPastEndpoints(_, _, _)
PathWalksPastEndpoints(g, path, eps) ==
  LET v == path[Len(path)]
  IN IF v \notin DOMAIN g
     THEN {[path |-> path, graph |-> g, crash |-> FALSE]}
     ELSE UNION {
       LET p2 == Append(path, n)
       IN UNION {
            IF r.crash \/ n = path[1] \/ n \notin DOMAIN r.graph
            THEN {[path |-> p2, graph |-> r.graph, crash |-> r.crash]}
            ELSE PathWalksPastEndpoints(r.graph, p2, eps)
            : r \in RemoveLink(g, v, n)}
       : n \in g[v]}

\* the walks of the path loop (lines 1158-1184) from the end of path: every
\* choice of *((*p).second.begin()) is a possible walk.  A walk that takes
\* a link v - v as the last link of v ends there: with crash TRUE, or, when
\* the read of the erased entry is survived, with the path [..., v, v] (v
\* has left the map: p is end(), or the stale entry reads as empty at line
\* 1162)
RECURSIVE PathWalks(_, _, _)
PathWalks(g, path, eps) ==
  LET v == path[Len(path)]
  IN IF v \notin DOMAIN g
     THEN {[path |-> path, graph |-> g, crash |-> FALSE]}
     ELSE UNION {
       LET p2 == Append(path, n)
       IN UNION {
            IF r.crash \/ n = path[1] \/ n \notin DOMAIN r.graph \/ n \in eps
            THEN {[path |-> p2, graph |-> r.graph, crash |-> r.crash]}
            ELSE PathWalks(r.graph, p2, eps)
            : r \in RemoveLink(g, v, n)}
       : n \in g[v]}

\* the walks of the loop loop (lines 1202-1223).  Line 1218 erases the entry
\* of n and leaves q as it is, so when the walk goes on from a vertex that
\* has left the map (n is not path[0]) p is the iterator of an erased entry:
\* the assertion of line 1203 does not see it and line 1206 takes the first
\* element of the erased, empty set: there is no neighbour to go on with
\* and the program ends with a segmentation fault (crash)
RECURSIVE LoopWalks(_, _)
LoopWalks(g, path) ==
  LET v == path[Len(path)]
  IN UNION {
       LET p2 == Append(path, n)
       IN UNION {
            IF r.crash
            THEN {[path |-> p2, graph |-> r.graph, crash |-> TRUE]}
            ELSE IF n = path[1]
                 THEN {[path |-> p2, graph |-> r.graph, crash |-> FALSE]}
                 ELSE IF n \notin DOMAIN r.graph
                      THEN {[path |-> p2, graph |-> r.graph, crash |-> TRUE]}
                      ELSE LoopWalks(r.graph, p2)
            : r \in RemoveLink(g, v, n)}
       : n \in g[v]}

(***************************************************************************)
(* splitFace.  The graph is the set of its directed edges <<src, tgt>>.    *)
(***************************************************************************)
OutboundEdges(g, v) == {e \in g : e[1] = v}

\* ScanOut that keeps the first edge it finds: line 256 without the test
\* out_ang < best
RECURSIVE ScanOutKeepFirst(_, _, _, _)
ScanOutKeepFirst(opts, e, k, acc) ==
  IF k > Len(opts) THEN acc.out
  ELSE LET o == opts[k]
       IN IF o[2] = e[1]
          THEN ScanOutKeepFirst(opts, e, k + 1,
                 IF acc.out = <<>> /\ k = Len(opts)
                 THEN [acc EXCEPT !.out = o] ELSE acc)
          ELSE ScanOutKeepFirst(opts, e, k + 1,
                 IF acc.out = <<>> THEN [out |-> o, best |-> o] ELSE acc)

\* the scan of lines 249-260 over the list opts of the outbound edges of
\* e.tgt, from its entry k on: acc.out is out (<<>> for NULL), acc.best the
\* edge whose angle is best (<<>> while best is 2 pi + 1)
RECURSIVE ScanOut(_, _, _, _)
ScanOut(opts, e, k, acc) ==
  IF k > Len(opts) THEN acc.out
  ELSE LET o == opts[k]
           u == Sub2(project(e[1]), project(e[2]))
           dir(x) == Sub2(project(x[2]), project(x[1]))
       IN IF o[2] = e[1]
          THEN ScanOut(opts, e, k + 1,
                 IF acc.out = <<>> /\ k = Len(opts)
                 THEN [acc EXCEPT !.out = o] ELSE acc)
          ELSE ScanOut(opts, e, k + 1,
                 IF acc.out = <<>> \/ acc.best = <<>>
                    \/ AngLess(u, dir(o), dir(acc.best))
                 THEN [out |-> o, best |-> o] ELSE acc)

\* the orders in which Graph::addEdge can have left the outbound edges
ListOrders(S) ==
  {l \in [1..Cardinality(S) -> S] : \A i, j \in 1..Cardinality(S) :
                                      l[i] = l[j] => i = j}

\* NextEdges that never turns back along the edge it came by
NextEdgesNoReversal(g, e) ==
  LET opts == OutboundEdges(g, e[2])
      fwd == {o \in opts : o[2] # e[1]}
      u == Sub2(project(e[1]), project(e[2]))
      dir(o) == Sub2(project(o[2]), project(o[1]))
  IN {o \in fwd : \A o2 \in fwd : ~AngLess(u, dir(o2), dir(o))}

\* the candidates for out after the scan of lines 249-260 from the edge e
NextEdges(g, e) ==
  LET opts == OutboundEdges(g, e[2])
      fwd == {o \in opts : o[2] # e[1]}
      u == Sub2(project(e[1]), project(e[2]))
      dir(o) == Sub2(project(o[2]), project(o[1]))
  IN IF fwd = {} THEN opts
     ELSE {o \in fwd : \A o2 \in fwd : ~AngLess(u, dir(o2), dir(o))}

\* Graph::pickStartEdge: the edge of a vertex with one outbound edge when
\* there is one, else an edge of any vertex
StartEdges(g) ==
  LET single == {e \in g : Cardinality(OutboundEdges(g, e[1])) = 1}
  IN IF single # {} THEN single ELSE g

\* the walk of lines 241-279 along the sequence of edges walked so far: the
\* edges of the closed loop, or <<>> when out is NULL (line 262)
RECURSIVE WalkLoops(_, _)
WalkLoops(g, walked) ==
  LET e == walked[Len(walked)]
      outs == NextEdges(g, e)
  IN IF outs = {} THEN {<<>>}
     ELSE UNION {
       IF \E k \in 1..Len(walked) : walked[k] = out
       THEN {SubSeq(walked, Find(walked, out), Len(walked))}
       ELSE WalkLoops(g, Append(walked, out))
       : out \in outs}

\* one round of the while loop of line 232: the possible extracted loops
SplitRounds(g) == UNION {WalkLoops(g, <<start>>) : start \in StartEdges(g)}

\* loop[i] = edge->src
LoopSources(edges) == [i \in 1..Len(edges) |-> edges[i][1]]

\* IsFaceLoop that takes a loop of signed area zero for a face loop too
IsFaceLoopNotPositive(loop) == signedArea(Projected(loop)) <= 0

\* IsFaceLoop with the test of line 304 the other way round
IsFaceLoopPositive(loop) == signedArea(Projected(loop)) > 0

\* line 300: a loop of negative signedArea is a face loop
IsFaceLoop(loop) == signedArea(Projected(loop)) < 0

(***************************************************************************)
(* compareFaceLoopAndHoleLoop and computeContainment.  Positions inside a  *)
(* loop are 0-based as in the source (At reads them); unmatched_h_idx is   *)
(* -1 when there is none.  Loops in a list are numbered from 1.            *)
(***************************************************************************)
At(s, i) == s[i + 1]

\* std::sort with carve::index_sort (lines 447-448, 458-459): the index
\* vectors that list the positions todo of s in the order of the handles.
\* std::sort leaves the order of positions that hold the same handle open,
\* so every such order is a possible outcome
RECURSIVE SortedIdx(_, _)
SortedIdx(s, todo) ==
  IF todo = {} THEN {<<>>}
  ELSE UNION {{<<m>> \o r : r \in SortedIdx(s, todo \ {m})}
              : m \in {i \in todo : \A k \in todo : At(s, i) <= At(s, k)}}

IndexSort(s) == SortedIdx(s, 0..(Len(s) - 1))

\* face_loops_sorted, hole_loops_sorted: one index vector for each loop
RECURSIVE LoopsSorted(_)
LoopsSorted(ls) ==
  IF ls = <<>> THEN {<<>>}
  ELSE {<<x>> \o r : x \in IndexSort(Head(ls)), r \in LoopsSorted(Tail(ls))}

\* do { ++I; } while (I < F && f[f_sort[I]] == t);
RECURSIVE SkipEqual(_, _, _, _)
SkipEqual(s, sort, I, t) ==
  IF I + 1 < Len(s) /\ At(s, At(sort, I + 1)) = t
  THEN SkipEqual(s, sort, I + 1, t) ELSE I + 1

\* CompareWalk without the test of lines 400-402 after the loop
RECURSIVE CompareWalkNoTail(_, _, _, _, _, _, _)
CompareWalkNoTail(f, f_sort, h, h_sort, I, J, st) ==
  LET F == Len(f)
      H == Len(h)
  IN IF I < F /\ J < H
     THEN LET i == At(f_sort, I)
              j == At(h_sort, J)
          IN IF At(f, i) = At(h, j)
             THEN CompareWalkNoTail(f, f_sort, h, h_sort,
                    SkipEqual(f, f_sort, I, At(f, i)),
                    SkipEqual(h, h_sort, J, At(f, i)),
                    [st EXCEPT !.shares_vertex = TRUE, !.f_idx = i, !.h_idx = j,
                       !.shares_edge = st.shares_edge
                          \/ At(f, (i + F - 1) % F) = At(h, (j + 1) % H)])
             ELSE IF At(f, i) < At(h, j)
                  THEN CompareWalkNoTail(f, f_sort, h, h_sort, I + 1, J, st)
                  ELSE CompareWalkNoTail(f, f_sort, h, h_sort, I, J + 1,
                         [st EXCEPT !.unmatched_h_idx = j])
     ELSE st

\* CompareWalk that writes f_idx and h_idx at the first match only
RECURSIVE CompareWalkKeepFirst(_, _, _, _, _, _, _)
CompareWalkKeepFirst(f, f_sort, h, h_sort, I, J, st) ==
  LET F == Len(f)
      H == Len(h)
  IN IF I < F /\ J < H
     THEN LET i == At(f_sort, I)
              j == At(h_sort, J)
          IN IF At(f, i) = At(h, j)
             THEN CompareWalkKeepFirst(f, f_sort, h, h_sort,
                    SkipEqual(f, f_sort, I, At(f, i)),
                    SkipEqual(h, h_sort, J, At(f, i)),
                    [st EXCEPT !.shares_vertex = TRUE,
                       !.f_idx = IF st.shares_vertex THEN @ ELSE i,
                       !.h_idx = IF st.shares_vertex THEN @ ELSE j,
                       !.shares_edge = st.shares_edge
                          \/ At(f, (i + F - 1) % F) = At(h, (j + 1) % H)])
             ELSE IF At(f, i) < At(h, j)
                  THEN CompareWalkKeepFirst(f, f_sort, h, h_sort, I + 1, J, st)
                  ELSE CompareWalkKeepFirst(f, f_sort, h, h_sort, I, J + 1,
                         [st EXCEPT !.unmatched_h_idx = j])
     ELSE IF J < H THEN [st EXCEPT !.unmatched_h_idx = At(h_sort, J)] ELSE st

RECURSIVE CompareWalk(_, _, _, _, _, _, _)
CompareWalk(f, f_sort, h, h_sort, I, J, st) ==
  LET F == Len(f)
      H == Len(h)
  IN IF I < F /\ J < H
     THEN LET i == At(f_sort, I)
              j == At(h_sort, J)
          IN IF At(f, i) = At(h, j)
             THEN CompareWalk(f, f_sort, h, h_sort,
                    SkipEqual(f, f_sort, I, At(f, i)),
                    SkipEqual(h, h_sort, J, At(f, i)),
                    [st EXCEPT !.shares_vertex = TRUE, !.f_idx = i, !.h_idx = j,
                       !.shares_edge = st.shares_edge
                          \/ At(f, (i + F - 1) % F) = At(h, (j + 1) % H)])
             ELSE IF At(f, i) < At(h, j)
                  THEN CompareWalk(f, f_sort, h, h_sort, I + 1, J, st)
                  ELSE CompareWalk(f, f_sort, h, h_sort, I, J + 1,
                         [st EXCEPT !.unmatched_h_idx = j])
     ELSE IF J < H THEN [st EXCEPT !.unmatched_h_idx = At(h_sort, J)] ELSE st

\* f_idx and h_idx are not written when no vertex is shared; 0 stands for
\* the value they are left with, which no caller reads
compareFaceLoopAndHoleLoop(f, f_sort, h, h_sort) ==
  CompareWalk(f, f_sort, h, h_sort, 0, 0,
    [f_idx |-> 0, h_idx |-> 0, unmatched_h_idx |-> -1,
     shares_vertex |-> FALSE, shares_edge |-> FALSE])

\* the body of the loop over j of lines 476-541 for hole i and face j:
\* "fail" (CARVE_FAIL), "skip" (continue), "in" or "out"
ContainmentCase(f, f_sort, h, h_sort) ==
  LET c == compareFaceLoopAndHoleLoop(f, f_sort, h, h_sort)
      test == IF c.shares_vertex /\ c.unmatched_h_idx # -1
              THEN project(At(h, c.unmatched_h_idx))
              ELSE project(At(h, 0))
  IN IF c.shares_vertex /\ c.unmatched_h_idx = -1
     THEN IF c.shares_edge THEN "skip" ELSE "fail"
     ELSE IF pointInPolySimple(Projected(f), test) THEN "in" ELSE "out"

\* containing_faces, hole_shared_vertices, and whether CARVE_FAIL is
\* reached, for the index vectors f_sorted and h_sorted of the loops
computeContainment(face_loops, hole_loops, f_sorted, h_sorted) ==
  LET FI == 1..Len(face_loops)
      HI == 1..Len(hole_loops)
      cmp(i, j) == compareFaceLoopAndHoleLoop(face_loops[j], f_sorted[j],
                                              hole_loops[i], h_sorted[i])
      cas(i, j) == ContainmentCase(face_loops[j], f_sorted[j],
                                   hole_loops[i], h_sorted[i])
  IN [fail |-> \E i \in HI, j \in FI : cas(i, j) = "fail",
      containing_faces |->
        [i \in HI |-> SelectSeq([j \in FI |-> j], LAMBDA j : cas(i, j) = "in")],
      hole_shared_vertices |->
        [i \in {k \in HI : \E j \in FI : cmp(k, j).shares_vertex} |->
          [j \in {k \in FI : cmp(i, k).shares_vertex} |->
            <<cmp(i, j).h_idx, cmp(i, j).f_idx>>]]]

(***************************************************************************)
(* mergeFacesAndHoles.                                                     *)
(***************************************************************************)
\* lines 628-636: h_loop from h_idx + 1 round to h_idx, put after f_idx
PatchHole(f_loop, h_loop, f_idx, h_idx) ==
  Copy(f_loop, 0, f_idx + 1) \o Copy(h_loop, h_idx + 1, Len(h_loop))
  \o Copy(h_loop, 0, h_idx + 1) \o Copy(f_loop, f_idx + 1, Len(f_loop))

Min(S) == CHOOSE x \in S : \A y \in S : x <= y

\* the loop of lines 612-646 from hole i on: the face loops after patching
\* and the number of holes left unassigned
RECURSIVE PatchHoles(_, _, _, _, _)
PatchHoles(face_loops, hole_loops, cc, i, unassigned) ==
  IF i > Len(hole_loops)
  THEN [face_loops |-> face_loops, unassigned |-> unassigned]
  ELSE IF Len(cc.containing_faces[i]) # 0
       THEN PatchHoles(face_loops, hole_loops, cc, i + 1, unassigned)
       ELSE IF i \in DOMAIN cc.hole_shared_vertices
            THEN LET f == Min(DOMAIN cc.hole_shared_vertices[i])
                     hv == cc.hole_shared_vertices[i][f]
                 IN PatchHoles(
                      [face_loops EXCEPT ![f] =
                         PatchHole(face_loops[f], hole_loops[i], hv[2], hv[1])],
                      hole_loops, cc, i + 1, unassigned - 1)
            ELSE PatchHoles(face_loops, hole_loops, cc, i + 1, unassigned - 1)

RECURSIVE AppendAll(_, _, _)
AppendAll(face_holes, containing_faces, is) ==
  IF is = <<>> THEN face_holes
  ELSE LET f == containing_faces[Head(is)][1]
       IN AppendAll([face_holes EXCEPT ![f] = Append(@, Head(is))],
                    containing_faces, Tail(is))

\* the while loop of lines 650-672; hang is TRUE when a pass assigns nothing
\* while unassigned is not zero, so that the loop never ends
RECURSIVE AssignHoles(_, _, _)
AssignHoles(containing_faces, face_holes, unassigned) ==
  IF unassigned = 0 THEN [hang |-> FALSE, face_holes |-> face_holes]
  ELSE LET HI == DOMAIN containing_faces
           ones == SelectSeq([i \in HI |-> i],
                             LAMBDA i : Len(containing_faces[i]) = 1)
           removed == {containing_faces[ones[k]][1] : k \in 1..Len(ones)}
       IN IF ones = <<>> THEN [hang |-> TRUE, face_holes |-> face_holes]
          ELSE AssignHoles(
                 [i \in HI |-> SelectSeq(containing_faces[i],
                                         LAMBDA f : f \notin removed)],
                 AppendAll(face_holes, containing_faces, ones),
                 unassigned - Len(ones))

\* the segments p-q and c-d cross at a point interior to both
SegmentsCross(p, q, c, d) ==
  /\ orient2d(p, q, c) * orient2d(p, q, d) < 0
  /\ orient2d(c, d, p) * orient2d(c, d, q) < 0

Dist2(p, q) == Dot2(Sub2(p, q), Sub2(p, q))

\* vertex a of the loop can be joined to vertex b of the hole h: the bridge
\* crosses no edge of the loop or of the hole
Visible(loop, h, a, b) ==
  \A e \in Range(LoopEdges(loop)) \cup Range(LoopEdges(h)) :
    ~SegmentsCross(project(loop[a]), project(h[b]),
                   project(e[1]), project(e[2]))

\* carve::triangulate::incorporateHolesIntoPolygon joins each hole to the
\* loop by a bridge from the least vertex of the hole to the nearest vertex
\* of the loop that it can see; both then occur twice in the loop.  The
\* result is the set of loops that the nearest vertices give, empty when the
\* hole sees no vertex (the kernel throws)
RECURSIVE incorporateHolesIntoPolygon(_, _)
incorporateHolesIntoPolygon(loop, holes) ==
  IF holes = <<>> THEN {loop}
  ELSE LET h == Head(holes)
           b == Min({k \in 1..Len(h) :
                       \A j \in 1..Len(h) :
                         ~P2Less(project(h[j]), project(h[k]))})
           seen == {a \in 1..Len(loop) : Visible(loop, h, a, b)}
           d(a) == Dist2(project(loop[a]), project(h[b]))
           near == {a \in seen : \A c \in seen : d(a) <= d(c)}
       IN UNION {incorporateHolesIntoPolygon(
                   Copy(loop, 0, a) \o Copy(h, b - 1, Len(h)) \o Copy(h, 0, b)
                   \o Copy(loop, a - 1, Len(loop)), Tail(holes))
                 : a \in near}

\* StitchFrom that leaves every face loop as it is: no hole is joined
StitchNoHole(face_loops, hole_loops, face_holes, i) ==
  {[ok |-> TRUE, loops |-> SubSeq(face_loops, i, Len(face_loops))]}

\* StitchFrom that leaves out the push_back of line 694: a face loop without
\* holes is not put back
RECURSIVE StitchSkipPlain(_, _, _, _)
StitchSkipPlain(face_loops, hole_loops, face_holes, i) ==
  IF i > Len(face_loops) THEN {[ok |-> TRUE, loops |-> <<>>]}
  ELSE LET rest == StitchSkipPlain(face_loops, hole_loops, face_holes, i + 1)
           mine == incorporateHolesIntoPolygon(face_loops[i],
                     [k \in 1..Len(face_holes[i]) |->
                        hole_loops[face_holes[i][k]]])
       IN IF face_holes[i] = <<>> THEN rest
          ELSE IF mine = {} THEN {[ok |-> FALSE, loops |-> <<>>]}
          ELSE {[ok |-> r.ok, loops |-> <<l>> \o r.loops]
                : l \in mine, r \in rest}

\* lines 692-722 from face loop i on: the loops pushed back to f_loops, and
\* whether the loop over the faces has come to its end (ok) or the kernel
\* has thrown at a face whose hole could not be joined
RECURSIVE StitchFrom(_, _, _, _)
StitchFrom(face_loops, hole_loops, face_holes, i) ==
  IF i > Len(face_loops) THEN {[ok |-> TRUE, loops |-> <<>>]}
  ELSE LET rest == StitchFrom(face_loops, hole_loops, face_holes, i + 1)
           mine == IF face_holes[i] = <<>> THEN {face_loops[i]}
                   ELSE incorporateHolesIntoPolygon(face_loops[i],
                          [k \in 1..Len(face_holes[i]) |->
                             hole_loops[face_holes[i][k]]])
       IN IF mine = {} THEN {[ok |-> FALSE, loops |-> <<>>]}
          ELSE {[ok |-> r.ok, loops |-> <<l>> \o r.loops]
                : l \in mine, r \in rest}

\* one run of mergeFacesAndHoles with the index vectors f_sorted and
\* h_sorted: the embedding (cc), the patches (pp), the assignment (aa) and
\* the possible ends: "fail" (CARVE_FAIL thrown by computeContainment),
\* "hang" (the assignment loop never ends), "nolink" (the kernel throws) or
\* "ok".  f_loops and h_loops are the two lists as the call leaves them:
\* both are cleared at lines 600-601 and f_loops is refilled by lines 692-722
MergeRun(f_loops, h_loops, f_sorted, h_sorted) ==
  LET cc == computeContainment(f_loops, h_loops, f_sorted, h_sorted)
      pp == PatchHoles(f_loops, h_loops, cc, 1, Len(h_loops))
      aa == AssignHoles(cc.containing_faces,
                        [i \in 1..Len(f_loops) |-> <<>>], pp.unassigned)
      end(status, ls) == [status |-> status, f_loops |-> ls, h_loops |-> <<>>]
  IN [cc |-> cc, pp |-> pp, aa |-> aa,
      ends |->
        IF cc.fail THEN {end("fail", <<>>)}
        ELSE IF aa.hang THEN {end("hang", <<>>)}
        ELSE {end(IF st.ok THEN "ok" ELSE "nolink", st.loops)
              : st \in StitchFrom(pp.face_loops, h_loops, aa.face_holes, 1)}]

\* the runs that the orders of equal handles left open by std::sort allow
MergeRuns(f_loops, h_loops) ==
  {MergeRun(f_loops, h_loops, fs, hs)
   : fs \in LoopsSorted(f_loops), hs \in LoopsSorted(h_loops)}

\* the possible outcomes of mergeFacesAndHoles
mergeFacesAndHoles(f_loops, h_loops) ==
  UNION {run.ends : run \in MergeRuns(f_loops, h_loops)}

(***************************************************************************)
(* processCrossingEdges.  Positions on the base loop are 0-based, and N    *)
(* (the size of the base loop) stands for "not on the base loop".          *)
(***************************************************************************)
internalToAngle(a, b, c, p) ==
  LET reflex == IF P2Less(a, c) THEN orient2d(a, b, c) <= 0
                ELSE orient2d(c, b, a) >= 0
  IN IF reflex THEN orient2d(a, b, p) >= 0 \/ orient2d(b, c, p) >= 0
     ELSE orient2d(a, b, p) > 0 /\ orient2d(b, c, p) > 0

\* lines 826-875 for one end v (the front or the back) of the path p: the
\* position the end is attached to once base_loop[0 .. i-1] has been scanned.
\* Lines 840 and 864 are the same: at the back end of a closed path p[0] is
\* base_loop[i] as well, so the vertex tested is p[1] there too
RECURSIVE LocateEnd(_, _, _, _)
LocateEnd(base_loop, p, v, i) ==
  LET N == Len(base_loop)
  IN IF i = 0 THEN N
     ELSE LET prev == LocateEnd(base_loop, p, v, i - 1)
              k == i - 1
              a == At(base_loop, (k + N - 1) % N)
              b == At(base_loop, k)
              c == At(base_loop, (k + 1) % N)
              adj == IF p[1] = b THEN p[2] ELSE p[Len(p) - 1]
          IN IF v # b THEN prev
             ELSE IF prev = N THEN k
             ELSE IF internalToAngle(project(a), project(b), project(c),
                                     project(adj))
                  THEN k ELSE prev

\* OrientCrossing without the swap and reversal of lines 891-893
OrientCrossingNoSwap(base_loop, p) ==
  LET N == Len(base_loop)
      e0 == LocateEnd(base_loop, p, p[1], N)
      e1 == LocateEnd(base_loop, p, p[Len(p)], N)
  IN IF e0 = e1
     THEN [e0 |-> e0, e1 |-> e1,
           path |-> IF signedArea(Projected(Tail(p))) < 0 THEN Rev(p) ELSE p]
     ELSE [e0 |-> e0, e1 |-> e1, path |-> p]

\* lines 883-895: the path and its two positions after orientation
OrientCrossing(base_loop, p) ==
  LET N == Len(base_loop)
      e0 == LocateEnd(base_loop, p, p[1], N)
      e1 == LocateEnd(base_loop, p, p[Len(p)], N)
  IN IF e0 = e1
     THEN [e0 |-> e0, e1 |-> e1,
           path |-> IF signedArea(Projected(Tail(p))) < 0 THEN Rev(p) ELSE p]
     ELSE IF e0 > e1 THEN [e0 |-> e1, e1 |-> e0, path |-> Rev(p)]
     ELSE [e0 |-> e0, e1 |-> e1, path |-> p]

\* crossing_data::operator< (lines 782-784) and, among the crossings with
\* the same two positions, the order of lines 924-954: by decreasing area,
\* then by the address of the path (its place k)
CrossBefore(x, y) ==
  \/ x.e0 < y.e0
  \/ x.e0 = y.e0 /\ x.e1 > y.e1
  \/ x.e0 = y.e0 /\ x.e1 = y.e1
     /\ LET ax == signedArea(Projected(x.path))
            ay == signedArea(Projected(y.path))
        IN ax > ay \/ (ax = ay /\ x.k <= y.k)

RECURSIVE SortCross(_)
SortCross(S) ==
  IF S = {} THEN <<>>
  ELSE LET m == CHOOSE x \in S : \A y \in S : CrossBefore(x, y)
       IN <<m>> \o SortCross(S \ {m})

\* SortedCrossings without the temporary crossing of lines 908-913
SortedCrossingsNoTemp(base_loop, paths) ==
  LET N == Len(base_loop)
      oc(k) == OrientCrossing(base_loop, paths[k])
      real == {[e0 |-> oc(k).e0, e1 |-> oc(k).e1, path |-> oc(k).path, k |-> k]
               : k \in {x \in 1..Len(paths) : oc(x).e1 # N}}
      sorted == SortCross(real)
  IN {[n \in 1..Len(sorted) |->
         [e0 |-> sorted[n].e0, e1 |-> sorted[n].e1, path |-> sorted[n].path]]}

\* lines 883-954: the sorted crossings, the temporary crossing included.
\* The paths are entries of one vector, so their addresses are in the order
\* of their places; base_loop_temp_path is a local object whose address may
\* be below or above them all (place 0 or place Len(paths) + 1), which the
\* language leaves open
SortedCrossings(base_loop, paths) ==
  LET N == Len(base_loop)
      oc(k) == OrientCrossing(base_loop, paths[k])
      real == {[e0 |-> oc(k).e0, e1 |-> oc(k).e1, path |-> oc(k).path, k |-> k]
               : k \in {x \in 1..Len(paths) : oc(x).e1 # N}}
      temp(k) == [e0 |-> 0, e1 |-> N - 1,
                  path |-> <<base_loop[1], base_loop[N]>>, k |-> k]
      sorted(k) == SortCross(real \cup {temp(k)})
  IN {[n \in 1..Len(sorted(k)) |->
         [e0 |-> sorted(k)[n].e0, e1 |-> sorted(k)[n].e1,
          path |-> sorted(k)[n].path]]
      : k \in {0, Len(paths) + 1}}

\* the paths that do not connect to the base loop in two places; noncross is
\* sorted by a key that does not tell them apart, and only the set is used
NonCrossings(base_loop, paths) ==
  LET N == Len(base_loop)
      oc(k) == OrientCrossing(base_loop, paths[k])
  IN {oc(k) : k \in {x \in 1..Len(paths) : oc(x).e1 = N}}

\* do { ++skip; } while (skip != cross.size() && cross[skip].edge_idx[0] < e2_1);
RECURSIVE AdvanceSkip(_, _, _)
AdvanceSkip(cross, skip, e2_1) ==
  IF skip + 1 # Len(cross) /\ At(cross, skip + 1).e0 < e2_1
  THEN AdvanceSkip(cross, skip + 1, e2_1) ELSE skip + 1

\* the while loop of lines 970-995 and the copies of lines 998-1001
RECURSIVE ComplexLoop(_, _, _, _, _, _)
ComplexLoop(base_loop, cross, i, pos, skip, out) ==
  LET c1 == At(cross, i)
      tail == Copy(base_loop, pos, c1.e1) \o Copy(Rev(c1.path), 0, Len(c1.path) - 1)
  IN IF pos = c1.e1
     THEN [ok |-> At(base_loop, c1.e1) = c1.path[Len(c1.path)],
           loop |-> out \o tail]
     ELSE LET c2 == At(cross, skip)
              out2 == out \o Copy(base_loop, pos, c2.e0)
                          \o Copy(c2.path, 0, Len(c2.path) - 1)
              skip2 == AdvanceSkip(cross, skip, c2.e1)
              tail2 == Copy(base_loop, c2.e1, c1.e1)
                       \o Copy(Rev(c1.path), 0, Len(c1.path) - 1)
          IN IF At(base_loop, c2.e0) # c2.path[1]
             THEN [ok |-> FALSE, loop |-> out2]
             ELSE IF skip2 = Len(cross) \/ At(cross, skip2).e0 >= c1.e1
                  THEN [ok |-> At(base_loop, c1.e1) = c1.path[Len(c1.path)],
                        loop |-> out2 \o tail2]
                  ELSE ComplexLoop(base_loop, cross, i, c2.e1, skip2, out2)

\* DivideOne with the whole of the reversed path copied at line 1007
DivideOneWholePath(base_loop, cross, i) ==
  LET c1 == At(cross, i)
  IN IF i < Len(cross) - 1 /\ At(cross, i + 1).e0 < c1.e1
     THEN ComplexLoop(base_loop, cross, i, c1.e0, i + 1, <<>>)
     ELSE [ok |-> TRUE,
           loop |-> Copy(base_loop, c1.e0, c1.e1) \o Rev(c1.path)]

\* lines 956-1012 for the crossing i (0-based): one divided base loop; ok is
\* FALSE when an assertion of line 979 or 1000 fails
DivideOne(base_loop, cross, i) ==
  LET c1 == At(cross, i)
  IN IF i < Len(cross) - 1 /\ At(cross, i + 1).e0 < c1.e1
     THEN ComplexLoop(base_loop, cross, i, c1.e0, i + 1, <<>>)
     ELSE [ok |-> TRUE,
           loop |-> Copy(base_loop, c1.e0, c1.e1)
                    \o Copy(Rev(c1.path), 0, Len(c1.path) - 1)]

divided_base_loop(base_loop, cross) ==
  [i \in 1..Len(cross) |-> DivideOne(base_loop, cross, i - 1).loop]

DivideOk(base_loop, cross) ==
  \A i \in 1..Len(cross) : DivideOne(base_loop, cross, i - 1).ok

\* lines 1039-1064: the paths and loops to include in the divided loop d
Included(base_loop, d, noncross, loops) ==
  LET N == Len(base_loop)
      inside(test) == aabbIntersects(Projected(d), test)
                      /\ pointInPolyNotOut(Projected(d), test)
      ptest(nc) == IF nc.e0 < N
                   THEN IF nc.path[1] = At(base_loop, nc.e0)
                        THEN project(nc.path[Len(nc.path)])
                        ELSE project(nc.path[1])
                   ELSE project(nc.path[1])
  IN {nc.path : nc \in {x \in noncross : inside(ptest(x))}}
     \cup {loops[k] : k \in {x \in 1..Len(loops) : inside(project(loops[x][1]))}}

\* the consecutive pairs of a path, in both directions
BothWays(path) ==
  UNION {{<<path[k], path[k + 1]>>, <<path[k + 1], path[k]>>}
         : k \in 1..(Len(path) - 1)}

\* face_edges: the consecutive pairs of a closed loop
PerimeterEdges(loop) == {LoopEdges(loop)[k] : k \in 1..Len(loop)}

\* lines 1067-1083: the edges handed to splitFace for d and its inclusions
InclusionEdges(d, inc) ==
  PerimeterEdges(d) \cup UNION {BothWays(p) : p \in inc}

(***************************************************************************)
(* generateOneFaceLoop: the operators of its straight-line parts.          *)
(***************************************************************************)
\* SplitEdges without the test of lines 1334-1335: perimeter edges stay
SplitEdgesAll(base_loop, fse) == {ordered_edge(e[1], e[2]) : e \in fse}

\* lines 1327-1338: the split edges that are not on the perimeter
SplitEdges(base_loop, fse) ==
  LET face_edges == PerimeterEdges(base_loop)
  IN {ordered_edge(e[1], e[2])
      : e \in {x \in fse : x \notin face_edges
                           /\ <<x[2], x[1]>> \notin face_edges}}

\* lines 1346-1353: one split edge, with both ends on the base loop
IsSingleChord(base_loop, se) ==
  /\ Cardinality(se) = 1
  /\ \A e \in se : e[1] \in Range(base_loop) /\ e[2] \in Range(base_loop)

\* ChordLoops with the copies of lines 1366-1368 one vertex short
ChordLoopsOpen(base_loop, e) ==
  LET a == Find(base_loop, e[1]) - 1
      b == Find(base_loop, e[2]) - 1
      vi1 == IF b < a THEN b ELSE a
      vi2 == IF b < a THEN a ELSE b
  IN <<Copy(base_loop, vi1, vi2),
       Copy(base_loop, vi2, Len(base_loop)) \o Copy(base_loop, 0, vi1)>>

\* lines 1355-1374
ChordLoops(base_loop, e) ==
  LET a == Find(base_loop, e[1]) - 1
      b == Find(base_loop, e[2]) - 1
      vi1 == IF b < a THEN b ELSE a
      vi2 == IF b < a THEN a ELSE b
  IN <<Copy(base_loop, vi1, vi2 + 1),
       Copy(base_loop, vi2, Len(base_loop)) \o Copy(base_loop, 0, vi1 + 1)>>

\* lines 1391-1409 for one loop of composeEdgesIntoPaths (its last vertex
\* repeats its first): the face loop and the hole loop made of it
OrientLoop(l) ==
  LET fwd == Copy(l, 0, Len(l) - 1)
      bwd == Copy(Rev(l), 1, Len(l))
  IN IF signedArea(Projected(bwd)) > 0
     THEN [face |-> fwd, hole |-> bwd]
     ELSE [face |-> bwd, hole |-> fwd]

(***************************************************************************)
(* The inputs: the divided edges and the split edges of the faces.  An     *)
(* input is kept when no face has more than MaxSplit split edges and the   *)
(* segments of each face are a planar drawing on it.                       *)
(***************************************************************************)
Triangle == {<<7, 8>>, <<9, 8>>, <<9, 7>>}

NoDivision == <<>>
DivideM == [AB |-> <<5>>]
DivideMN == [AB |-> <<5, 6>>]

Input(de, fse) == [divided_edges |-> de, face_split_edges |-> fse]

\* face 1 undivided: no entry; no edge; the chords B-D and A-C; D-C on the
\* perimeter; the dangling path D-R; the free path S-P; a chord and a
\* dangling path; the paths D-R-P and D-R-C; the triangle P Q R; the loop
\* D R P through a perimeter vertex; the triangle with a dangling path,
\* with a chord, with both
InputsUndivided ==
  {Input(NoDivision, <<>>)}
  \cup {Input(NoDivision, (1 :> S)) :
          S \in { {}, {<<2, 4>>}, {<<12, 3>>}, {<<4, 3>>}, {<<4, 9>>},
                  {<<10, 7>>}, {<<2, 4>>, <<4, 9>>}, {<<4, 9>>, <<9, 7>>},
                  {<<4, 9>>, <<3, 9>>}, Triangle,
                  {<<4, 9>>, <<9, 7>>, <<7, 4>>},
                  Triangle \cup {<<4, 9>>}, Triangle \cup {<<2, 4>>},
                  Triangle \cup {<<2, 4>>, <<4, 9>>} }}

\* edge AB divided at M: the chord E-M of face 2; the chord M-D of face 1,
\* alone, with E-M, with the chord B-D, with the free path S-P
InputsM ==
  {Input(DivideM, fse) :
     fse \in { (2 :> {<<11, 5>>}), (1 :> {<<5, 4>>}),
               (1 :> {<<5, 4>>}) @@ (2 :> {<<11, 5>>}),
               (1 :> {<<5, 4>>, <<2, 4>>}), (1 :> {<<5, 4>>, <<10, 7>>}) }}

\* edge AB divided at M and N: no entry; chords side by side; two chords
\* at M, at C, at D; nested chords; three chords at D; the triangle P Q R
\* with the chord E-M of face 2
InputsMN ==
  {Input(DivideMN, <<>>),
   Input(DivideMN, (1 :> Triangle) @@ (2 :> {<<11, 5>>}))}
  \cup {Input(DivideMN, (1 :> S)) :
          S \in { {<<5, 4>>, <<6, 3>>}, {<<5, 4>>, <<3, 5>>},
                  {<<3, 5>>, <<6, 3>>}, {<<6, 4>>, <<2, 4>>},
                  {<<5, 4>>, <<3, 5>>, <<6, 3>>},
                  {<<5, 4>>, <<6, 4>>, <<2, 4>>} }}

InteriorVertices == <<{7, 8, 9, 10}, {}>>

ProperCross(e, f) ==
  LET a == project(e[1])
      b == project(e[2])
      c == project(f[1])
      d == project(f[2])
  IN /\ orient2d(a, b, c) * orient2d(a, b, d) < 0
     /\ orient2d(c, d, a) * orient2d(c, d, b) < 0

WellFormed(S, base_loop, interior) ==
  LET used == Range(base_loop) \cup UNION {{e[1], e[2]} : e \in S}
  IN /\ \A e \in S : {e[1], e[2]} \subseteq Range(base_loop) \cup interior
     /\ \A e \in S, f \in S : ~ProperCross(e, f)
     /\ \A e \in S, v \in used :
          v \in {e[1], e[2]}
          \/ ~OnSegment(project(e[1]), project(e[2]), project(v))

Inputs ==
  {inp \in InputsUndivided \cup InputsM \cup InputsMN :
     \A f \in DOMAIN inp.face_split_edges :
       /\ Cardinality(inp.face_split_edges[f]) <= MaxSplit
       /\ WellFormed(inp.face_split_edges[f],
                     assembleBaseLoop(Faces[f],
                       [vmap |-> (1 :> 12),
                        divided_edges |-> inp.divided_edges]),
                     InteriorVertices[f])}

(***************************************************************************)
(* The state.                                                              *)
(***************************************************************************)
VARIABLES
  data,            \* the data bundle: vmap, divided_edges, face_split_edges
  fi,              \* generateFaceLoops: the face being divided (from 1)
  pc,              \* where the division of face fi is
  err,             \* the exception thrown, "" if none
  base_loop,       \* generateOneFaceLoop
  split_edges,
  face_loops,
  vertex_graph,    \* composeEdgesIntoPaths
  endpoints,
  ep_cur,          \* *endpoints.begin(), 0 before the first is drawn
  paths,
  loops,
  cross,           \* processCrossingEdges: cross, noncross, divided, i
  graph,           \* splitFace: the edges left in the graph
  sf,              \* the lists splitFace and mergeFacesAndHoles work on
  received,        \* mergeFacesAndHoles: the loops its last call received
  face_loops_out,  \* generateFaceLoops: the (face, loop) pairs appended
  generated_edges

vars ==
  <<data, fi, pc, err, base_loop, split_edges, face_loops, vertex_graph,
    endpoints, ep_cur, paths, loops, cross, graph, sf, received,
    face_loops_out, generated_edges>>

NoCross ==
  [cross |-> <<>>, noncross |-> {}, divided |-> <<>>, inc |-> <<>>, i |-> 1]
NoSf == [face_loops |-> <<>>, hole_loops |-> <<>>, ret |-> ""]
NoCall == [face_loops |-> <<>>, hole_loops |-> <<>>]

Init ==
  /\ \E inp \in Inputs :
       data = [vmap |-> (1 :> 12), divided_edges |-> inp.divided_edges,
               face_split_edges |-> inp.face_split_edges]
  /\ fi = 1
  /\ pc = "face"
  /\ err = ""
  /\ base_loop = <<>>
  /\ split_edges = {}
  /\ face_loops = <<>>
  /\ vertex_graph = <<>>
  /\ endpoints = {}
  /\ ep_cur = 0
  /\ paths = <<>>
  /\ loops = <<>>
  /\ cross = NoCross
  /\ graph = {}
  /\ sf = NoSf
  /\ received = NoCall
  /\ face_loops_out = <<>>
  /\ generated_edges = 0

(***************************************************************************)
(* generateOneFaceLoop, lines 1298-1383: the base loop, the fast paths,    *)
(* and the start of composeEdgesIntoPaths (lines 1128-1145).               *)
(***************************************************************************)
GenerateOneFaceLoop ==
  /\ pc = "face"
  /\ LET base == assembleBaseLoop(Faces[fi], data)
         has == fi \in DOMAIN data.face_split_edges
         se == IF has THEN SplitEdges(base, data.face_split_edges[fi]) ELSE {}
     IN /\ base_loop' = base
        /\ split_edges' = se
        /\ paths' = <<>>
        /\ loops' = <<>>
        /\ ep_cur' = 0
        /\ cross' = NoCross
        /\ sf' = NoSf
        /\ IF se = {}
           THEN /\ face_loops' = <<base>>
                /\ pc' = "record"
                /\ vertex_graph' = <<>>
                /\ endpoints' = {}
           ELSE IF IsSingleChord(base, se)
           THEN /\ face_loops' = ChordLoops(base, CHOOSE e \in se : TRUE)
                /\ pc' = "record"
                /\ vertex_graph' = <<>>
                /\ endpoints' = {}
           ELSE /\ face_loops' = <<>>
                /\ pc' = "paths"
                /\ vertex_graph' = BuildVertexGraph(se)
                /\ endpoints' = FindEndpoints(BuildVertexGraph(se), base)
  /\ UNCHANGED received
  /\ UNCHANGED <<data, fi, err, graph, face_loops_out, generated_edges>>

(***************************************************************************)
(* composeEdgesIntoPaths, lines 1147-1227.                                 *)
(***************************************************************************)
\* lines 1150-1153, and the draw of the next *endpoints.begin()
ComposeNextEndpoint ==
  /\ pc = "paths"
  /\ ep_cur \notin DOMAIN vertex_graph
  /\ LET rest == endpoints \ {ep_cur}
     IN /\ endpoints' = rest
        /\ IF rest = {}
           THEN ep_cur' = 0 /\ pc' = "loops"
           ELSE ep_cur' \in rest /\ pc' = "paths"
  /\ UNCHANGED received
  /\ UNCHANGED <<data, fi, err, base_loop, split_edges, face_loops,
                 vertex_graph, paths, loops, cross, graph, sf, face_loops_out,
                 generated_edges>>

\* lines 1155-1187: one path from the endpoint *endpoints.begin(); a walk
\* that reads an erased entry of the map ends the program, or is survived
\* and then meets the assertion of line 1186 like every other walk
ComposePath ==
  /\ pc = "paths"
  /\ ep_cur \in DOMAIN vertex_graph
  /\ \E w \in PathWalks(vertex_graph, <<ep_cur>>, endpoints) :
       IF w.crash
       THEN /\ pc' = "crash"
            /\ UNCHANGED <<vertex_graph, paths, err>>
       ELSE /\ vertex_graph' = w.graph
            /\ IF w.path[Len(w.path)] \in endpoints
               THEN /\ paths' = Append(paths, w.path)
                    /\ pc' = "paths"
                    /\ err' = err
               ELSE /\ paths' = paths
                    /\ pc' = "throw"
                    /\ err' = "endpoints.find(path.back())"
  /\ UNCHANGED received
  /\ UNCHANGED <<data, fi, base_loop, split_edges, face_loops, endpoints,
                 ep_cur, loops, cross, graph, sf, face_loops_out,
                 generated_edges>>

\* lines 1193-1226: one loop from the vertex vertex_graph.begin(); a walk
\* that reads an erased entry of the map ends the program
ComposeLoop ==
  /\ pc = "loops"
  /\ DOMAIN vertex_graph # {}
  /\ \E v \in DOMAIN vertex_graph :
       IF Cardinality(vertex_graph[v]) # 2
       THEN /\ pc' = "throw"
            /\ err' = "(*p).second.size() == 2"
            /\ UNCHANGED <<vertex_graph, loops>>
       ELSE \E w \in LoopWalks(vertex_graph, <<v>>) :
              IF w.crash
              THEN /\ pc' = "crash"
                   /\ UNCHANGED <<vertex_graph, loops, err>>
              ELSE /\ vertex_graph' = w.graph
                   /\ loops' = Append(loops, w.path)
                   /\ pc' = "loops"
                   /\ err' = err
  /\ UNCHANGED received
  /\ UNCHANGED <<data, fi, base_loop, split_edges, face_loops, endpoints,
                 ep_cur, paths, cross, graph, sf, face_loops_out,
                 generated_edges>>

(***************************************************************************)
(* generateOneFaceLoop, lines 1385-1416, once composeEdgesIntoPaths has    *)
(* returned: without paths the loops become holes of the base loop; with   *)
(* paths processCrossingEdges divides the base loop (lines 816-1012).      *)
(***************************************************************************)
ComposeReturn ==
  /\ pc = "loops"
  /\ DOMAIN vertex_graph = {}
  /\ IF paths = <<>>
     THEN /\ sf' = [face_loops |-> <<base_loop>>
                      \o [k \in 1..Len(loops) |-> OrientLoop(loops[k]).face],
                    hole_loops |-> [k \in 1..Len(loops) |->
                                      OrientLoop(loops[k]).hole],
                    ret |-> "driver"]
          /\ pc' = "merge"
          /\ UNCHANGED <<cross, err>>
     ELSE \E cr \in SortedCrossings(base_loop, paths) :
          LET nc == NonCrossings(base_loop, paths)
              dv == divided_base_loop(base_loop, cr)
          IN /\ cross' = [cross |-> cr, noncross |-> nc, divided |-> dv,
                          inc |-> [k \in 1..Len(dv) |->
                                     Included(base_loop, dv[k], nc, loops)],
                          i |-> 1]
             /\ IF DivideOk(base_loop, cr)
                THEN pc' = "cross" /\ err' = err
                ELSE pc' = "throw" /\ err' = "base_loop[e] == path end"
             /\ sf' = sf
  /\ paths' = <<>>
  /\ loops' = <<>>
  /\ UNCHANGED received
  /\ UNCHANGED <<data, fi, base_loop, split_edges, face_loops, vertex_graph,
                 endpoints, ep_cur, graph, face_loops_out, generated_edges>>

\* lines 1033-1097 for the divided base loop i: it is output as it is, or
\* handed to splitFace with the paths and loops that lie in it (cross.inc,
\* which ComposeReturn has worked out from the paths and loops)
IncorporateInclusions ==
  /\ pc = "cross"
  /\ cross.i <= Len(cross.divided)
  /\ LET d == cross.divided[cross.i]
         inc == cross.inc[cross.i]
     IN IF inc = {}
        THEN /\ face_loops' = Append(face_loops, d)
             /\ cross' = [cross EXCEPT !.i = @ + 1]
             /\ UNCHANGED <<pc, graph, sf>>
        ELSE /\ graph' = InclusionEdges(d, inc)
             /\ sf' = [face_loops |-> <<>>, hole_loops |-> <<>>, ret |-> "cross"]
             /\ pc' = "split"
             /\ UNCHANGED <<face_loops, cross>>
  /\ UNCHANGED received
  /\ UNCHANGED <<data, fi, err, base_loop, split_edges, vertex_graph,
                 endpoints, ep_cur, paths, loops, face_loops_out,
                 generated_edges>>

\* processCrossingEdges has no return statement (line 1098): control flows
\* off the end of a function that returns bool, which is undefined.  The
\* builds give three outcomes: the caller reads a value that was never set,
\* as true or as false, or the process dies there.  When the caller reads
\* false it runs the fallback of lines 1418-1426 on the face loops already
\* output.
ProcessCrossingEdgesReturn ==
  /\ pc = "cross"
  /\ cross.i > Len(cross.divided)
  /\ \E ret \in {"true", "false", "crash"} :
       CASE ret = "true" -> pc' = "record" /\ UNCHANGED <<graph, sf>>
         [] ret = "crash" -> pc' = "crash" /\ UNCHANGED <<graph, sf>>
         [] ret = "false" ->
              /\ graph' = PerimeterEdges(base_loop)
                          \cup UNION {{e, <<e[2], e[1]>>} : e \in split_edges}
              /\ sf' = [face_loops |-> face_loops, hole_loops |-> <<>>,
                        ret |-> "fallback"]
              /\ pc' = "split"
  /\ UNCHANGED received
  /\ UNCHANGED <<data, fi, err, base_loop, split_edges, face_loops,
                 vertex_graph, endpoints, ep_cur, paths, loops, cross,
                 face_loops_out, generated_edges>>

(***************************************************************************)
(* splitFace, lines 232-317: one round of the while loop.                  *)
(***************************************************************************)
SplitFaceRound ==
  /\ pc = "split"
  /\ graph # {}
  /\ \E es \in SplitRounds(graph) :
       IF es = <<>>
       THEN /\ pc' = "throw"
            /\ err' = "out != NULL"
            /\ UNCHANGED <<graph, sf>>
       ELSE /\ graph' = graph \ Range(es)
            /\ sf' = IF IsFaceLoop(LoopSources(es))
                     THEN [sf EXCEPT !.face_loops = Append(@, LoopSources(es))]
                     ELSE [sf EXCEPT !.hole_loops = Append(@, LoopSources(es))]
            /\ UNCHANGED <<pc, err>>
  /\ UNCHANGED received
  /\ UNCHANGED <<data, fi, base_loop, split_edges, face_loops, vertex_graph,
                 endpoints, ep_cur, paths, loops, cross, face_loops_out,
                 generated_edges>>

\* the face loops that the caller of splitFace and mergeFacesAndHoles has
\* once they return ls: lines 1093, 1413 and 1425
Returned(ls) == IF sf.ret = "cross" THEN face_loops \o ls ELSE ls

\* splitFace returns: lines 1090-1093 and 1424-1426 without hole loops
SplitFaceReturn ==
  /\ pc = "split"
  /\ graph = {}
  /\ IF sf.hole_loops # <<>>
     THEN pc' = "merge" /\ UNCHANGED <<face_loops, cross>>
     ELSE /\ face_loops' = Returned(sf.face_loops)
          /\ pc' = IF sf.ret = "cross" THEN "cross" ELSE "record"
          /\ cross' = IF sf.ret = "cross" THEN [cross EXCEPT !.i = @ + 1]
                      ELSE cross
  /\ UNCHANGED received
  /\ UNCHANGED <<data, fi, err, base_loop, split_edges, vertex_graph,
                 endpoints, ep_cur, paths, loops, graph, sf, face_loops_out,
                 generated_edges>>

(***************************************************************************)
(* mergeFacesAndHoles, lines 570-724, and the return to its caller.        *)
(***************************************************************************)
MergeFacesAndHoles ==
  /\ pc = "merge"
  /\ received' = [face_loops |-> sf.face_loops, hole_loops |-> sf.hole_loops]
  /\ \E r \in mergeFacesAndHoles(sf.face_loops, sf.hole_loops) :
       /\ sf' = [sf EXCEPT !.face_loops = r.f_loops, !.hole_loops = r.h_loops]
       /\ IF r.status = "ok"
          THEN /\ face_loops' = Returned(r.f_loops)
               /\ pc' = IF sf.ret = "cross" THEN "cross" ELSE "record"
               /\ cross' = IF sf.ret = "cross" THEN [cross EXCEPT !.i = @ + 1]
                           ELSE cross
               /\ err' = err
          ELSE /\ pc' = IF r.status = "hang" THEN "hang" ELSE "throw"
               /\ err' = CASE r.status = "fail" -> "implement me"
                           [] r.status = "nolink" -> "didn't link up hole"
                           [] OTHER -> err
               /\ face_loops' = IF sf.ret = "cross" THEN face_loops
                                ELSE r.f_loops
               /\ cross' = cross
  /\ UNCHANGED <<data, fi, base_loop, split_edges, vertex_graph, endpoints,
                 ep_cur, paths, loops, graph, face_loops_out,
                 generated_edges>>

\* RecordFaceLoops counting the loops instead of their vertices
RecordFaceLoopsCountLoops ==
  /\ pc = "record"
  /\ face_loops_out' = face_loops_out
                       \o [k \in 1..Len(face_loops) |-> <<fi, face_loops[k]>>]
  /\ generated_edges' = generated_edges + Len(face_loops)
  /\ fi' = fi + 1
  /\ pc' = IF fi = Len(Faces) THEN "done" ELSE "face"
  /\ UNCHANGED received
  /\ UNCHANGED <<data, err, base_loop, split_edges, face_loops, vertex_graph,
                 endpoints, ep_cur, paths, loops, cross, graph, sf>>

(***************************************************************************)
(* generateFaceLoops, lines 1465-1474: the loops of the face are appended  *)
(* and the next face is taken.  No exception is caught: one thrown by the  *)
(* division of a face ends generateFaceLoops (pc = "throw").               *)
(***************************************************************************)
RecordFaceLoops ==
  /\ pc = "record"
  /\ face_loops_out' = face_loops_out
                       \o [k \in 1..Len(face_loops) |-> <<fi, face_loops[k]>>]
  /\ generated_edges' = generated_edges
                        + SumSeq([k \in 1..Len(face_loops) |-> Len(face_loops[k])])
  /\ fi' = fi + 1
  /\ pc' = IF fi = Len(Faces) THEN "done" ELSE "face"
  /\ UNCHANGED received
  /\ UNCHANGED <<data, err, base_loop, split_edges, face_loops, vertex_graph,
                 endpoints, ep_cur, paths, loops, cross, graph, sf>>

Next ==
  \/ GenerateOneFaceLoop
  \/ ComposeNextEndpoint
  \/ ComposePath
  \/ ComposeLoop
  \/ ComposeReturn
  \/ IncorporateInclusions
  \/ ProcessCrossingEdgesReturn
  \/ SplitFaceRound
  \/ SplitFaceReturn
  \/ MergeFacesAndHoles
  \/ RecordFaceLoops

Spec == Init /\ [][Next]_vars

(***************************************************************************)
(* splitFace on its own: the while loop of lines 232-317 applied to every  *)
(* directed edge set over four vertices in which each vertex has as many   *)
(* inbound as outbound edges.                                              *)
(***************************************************************************)
SplitVertices == {7, 8, 9, 10}

Balanced(g) ==
  \A v \in Vertex :
    Cardinality({e \in g : e[1] = v}) = Cardinality({e \in g : e[2] = v})

BalancedGraphs ==
  {g \in SUBSET {e \in SplitVertices \X SplitVertices : e[1] # e[2]} :
     g # {} /\ Balanced(g)}

SplitInit ==
  /\ data = [vmap |-> (1 :> 12), divided_edges |-> NoDivision,
             face_split_edges |-> <<>>]
  /\ fi = 1
  /\ pc = "split"
  /\ err = ""
  /\ base_loop = <<>>
  /\ split_edges = {}
  /\ face_loops = <<>>
  /\ vertex_graph = <<>>
  /\ endpoints = {}
  /\ ep_cur = 0
  /\ paths = <<>>
  /\ loops = <<>>
  /\ cross = NoCross
  /\ graph \in BalancedGraphs
  /\ sf = [face_loops |-> <<>>, hole_loops |-> <<>>, ret |-> "splitFace"]
  /\ received = NoCall
  /\ face_loops_out = <<>>
  /\ generated_edges = 0

SplitSpec == SplitInit /\ [][SplitFaceRound]_vars

(***************************************************************************)
(* processCrossingEdges on a base loop that holds vertices twice: the      *)
(* square with the triangular hole P, Q, R bridged in at D and R, or with  *)
(* the edge D-P embedded as a slit; the edge A-B is divided at M and N.    *)
(* The state is the one in which composeEdgesIntoPaths has just returned   *)
(* the paths (line 1383), for every rotation of the base loop, every order *)
(* of the paths and either direction of each path.                         *)
(***************************************************************************)
BridgedLoop == <<12, 5, 6, 2, 3, 4, 9, 8, 7, 9, 4>>

Rotations(s) ==
  {[i \in 1..Len(s) |-> s[((i - 1 + r) % Len(s)) + 1]] : r \in 0..(Len(s) - 1)}

\* sets of paths from D that lie in the face and do not cross
DispatchPathSets ==
  {{<<4, 5>>, <<4, 6>>}, {<<4, 6>>, <<4, 2>>}, {<<4, 5>>, <<4, 6>>, <<4, 2>>},
   {<<4, 10, 5>>, <<4, 6>>}, {<<4, 10, 5>>, <<4, 5>>}, {<<4, 10>>, <<4, 2>>},
   {<<4, 10>>}}

\* the square with the edge D-P embedded as a slit, the edge A-B divided at
\* M and N: the base loop holds D twice
SlitLoop == <<12, 5, 6, 2, 3, 4, 7, 4>>

\* sets of paths from D that lie in the face with the slit and do not
\* cross: the closed path D, R, S, D runs round the slit, so that it leaves
\* D in the sector C, D, P and comes back in the sector P, D, A
SlitPathSets ==
  {{<<4, 9, 10, 4>>, <<4, 5>>}, {<<4, 9, 10, 4>>, <<4, 6>>},
   {<<4, 9, 10, 4>>}, {<<4, 9>>, <<4, 10>>}, {<<4, 10, 5>>, <<4, 9, 3>>}}

\* the base loops with the sets of paths composed in them
DispatchInputs ==
  {[base_loop |-> b, paths |-> S] :
     b \in Rotations(BridgedLoop), S \in DispatchPathSets}
  \cup {[base_loop |-> b, paths |-> S] :
           b \in Rotations(SlitLoop), S \in SlitPathSets}

\* the lists composeEdgesIntoPaths can return for a set of paths
PathLists(S) ==
  {l \in [1..Cardinality(S) -> S \cup {Rev(p) : p \in S}] :
     \A p \in S : \E k \in 1..Cardinality(S) : l[k] \in {p, Rev(p)}}

DispatchInit ==
  /\ data = [vmap |-> (1 :> 12), divided_edges |-> DivideMN,
             face_split_edges |-> <<>>]
  /\ fi = Len(Faces)
  /\ pc = "loops"
  /\ err = ""
  /\ \E inp \in DispatchInputs :
       /\ base_loop = inp.base_loop
       /\ paths \in PathLists(inp.paths)
       /\ split_edges = UNION {{ordered_edge(p[k], p[k + 1])
                                  : k \in 1..(Len(p) - 1)} : p \in inp.paths}
  /\ face_loops = <<>>
  /\ vertex_graph = <<>>
  /\ endpoints = {}
  /\ ep_cur = 0
  /\ loops = <<>>
  /\ cross = NoCross
  /\ graph = {}
  /\ sf = NoSf
  /\ received = NoCall
  /\ face_loops_out = <<>>
  /\ generated_edges = 0

DispatchNext ==
  \/ ComposeReturn
  \/ IncorporateInclusions
  \/ ProcessCrossingEdgesReturn
  \/ SplitFaceRound
  \/ SplitFaceReturn
  \/ RecordFaceLoops

DispatchSpec == DispatchInit /\ [][DispatchNext]_vars

(***************************************************************************)
(* composeEdgesIntoPaths on its own (lines 1115-1228): every set of at     *)
(* most MaxEdges of nine edges over five vertices (a triangle, two cycles  *)
(* through D, branches, two edges from a vertex to itself), with several   *)
(* lists of extra endpoints.                                               *)
(* The state is the one after lines 1128-1145.                             *)
(***************************************************************************)
ComposeEdges ==
  {<<7, 8>>, <<8, 9>>, <<7, 9>>, <<4, 7>>, <<4, 9>>, <<4, 10>>, <<9, 10>>,
   <<7, 7>>, <<9, 9>>}

ComposeEdgeSets ==
  {E \in SUBSET ComposeEdges : E # {} /\ Cardinality(E) <= MaxEdges}

ExtraEndpoints == {<<>>, <<12, 2, 3, 4>>, <<7, 9>>}

ComposeInit ==
  /\ data = [vmap |-> (1 :> 12), divided_edges |-> NoDivision,
             face_split_edges |-> <<>>]
  /\ fi = 1
  /\ pc = "paths"
  /\ err = ""
  /\ base_loop \in ExtraEndpoints
  /\ split_edges \in ComposeEdgeSets
  /\ face_loops = <<>>
  /\ vertex_graph = BuildVertexGraph(split_edges)
  /\ endpoints = FindEndpoints(BuildVertexGraph(split_edges), base_loop)
  /\ ep_cur = 0
  /\ paths = <<>>
  /\ loops = <<>>
  /\ cross = NoCross
  /\ graph = {}
  /\ sf = NoSf
  /\ received = NoCall
  /\ face_loops_out = <<>>
  /\ generated_edges = 0

ComposeNext ==
  \/ ComposeNextEndpoint
  \/ ComposePath
  \/ ComposeLoop

ComposeSpec == ComposeInit /\ [][ComposeNext]_vars

(***************************************************************************)
(* The properties.  At pc = "record" generateOneFaceLoop has returned and  *)
(* face_loops holds the loops it emits for face fi.  At pc = "throw" an    *)
(* exception has left generateFaceLoops, which has no handler.             *)
(***************************************************************************)
\* how often the directed edge e occurs in the loops
EdgeCount(ls, e) ==
  SumSeq([k \in 1..Len(ls) |-> Count(LoopEdges(ls[k]), e)])

\* how often the directed edge e is due: once as a perimeter edge of the
\* base loop, once as either direction of a split edge off the perimeter
DueCount(e) ==
  (IF e \in PerimeterEdges(base_loop) THEN 1 ELSE 0)
  + (IF e \in split_edges \/ <<e[2], e[1]>> \in split_edges THEN 1 ELSE 0)

\* no vertex occurs twice in the loop
Simple(l) == \A i, j \in 1..Len(l) : l[i] = l[j] => i = j

\* twice the signed area of the projected loop: the sum of
\* x_i * y_(i+1) - x_(i+1) * y_i over the cycle
Shoelace2(l) ==
  LET p == Projected(l)
      n == Len(l)
      nx(i) == IF i = n THEN 1 ELSE i + 1
  IN SumSeq([i \in 1..n |-> p[i][1] * p[nx(i)][2] - p[nx(i)][1] * p[i][2]])

\* the vertices of the split edges of face fi that are not on the base loop
InteriorEnds ==
  UNION {{e[1], e[2]} : e \in split_edges} \ Range(base_loop)

\* C1 (edge preservation): in the loops emitted for a face every directed
\* edge occurs as often as it is a perimeter edge of the base loop or a
\* direction of a split edge off the perimeter; nothing added, nothing lost
C1_EdgePreservation ==
  pc = "record" =>
    \A e \in Vertex \X Vertex : EdgeCount(face_loops, e) = DueCount(e)

\* C2 (loop simplicity) as stated: every loop emitted for a face contains
\* each vertex at most once, on every route through the driver
C2_EveryLoopSimple ==
  pc = "record" => \A k \in 1..Len(face_loops) : Simple(face_loops[k])

\* the vertices joined to v by a split edge
SplitNbrs(v) ==
  {e[2] : e \in {x \in split_edges : x[1] = v}}
  \cup {e[1] : e \in {x \in split_edges : x[2] = v}}

\* the walks along split edges that go on from the walk p and hold no
\* vertex twice
RECURSIVE SimplePathsFrom(_)
SimplePathsFrom(p) ==
  {p} \cup UNION {SimplePathsFrom(Append(p, n)) :
                    n \in SplitNbrs(p[Len(p)]) \ Range(p)}

\* the walks along split edges from a vertex of the base loop to another
\* one that hold no vertex twice
CrossingWalks ==
  {p \in UNION {SimplePathsFrom(<<a>>) : a \in Range(base_loop)} :
     Len(p) >= 2 /\ p[Len(p)] \in Range(base_loop)}

\* the split edge e lies on such a walk
OnCrossingWalk(e) ==
  \E p \in CrossingWalks : \E i \in 1..(Len(p) - 1) :
    {p[i], p[i + 1]} = {e[1], e[2]}

\* the loop l runs along the edge e, in one direction or the other
RunsAlong(l, e) ==
  \E i \in 1..Len(l) : {l[i], l[(i % Len(l)) + 1]} = {e[1], e[2]}

\* C2 (loop simplicity), amended: an emitted loop contains each vertex at
\* most once when every split edge it runs along lies on a walk of split
\* edges that joins two different vertices of the base loop and holds no
\* vertex twice; a loop repeats a vertex only when it runs along an edge of
\* a dangling path, of a hole, or of a cycle that hangs on the rest by one
\* vertex
C2_SimpleOnCrossingWalks ==
  pc = "record" =>
    \A k \in 1..Len(face_loops) :
      (\A e \in split_edges :
         RunsAlong(face_loops[k], e) => OnCrossingWalk(e))
      => Simple(face_loops[k])

\* a face divided by a path through a vertex off the base loop is emitted:
\* two loops or more, one of them along a split edge with an end off the
\* base loop and along crossing walks only
C2_Witness ==
  /\ pc = "record"
  /\ Len(face_loops) >= 2
  /\ \E k \in 1..Len(face_loops) :
       /\ \E e \in split_edges :
            /\ RunsAlong(face_loops[k], e)
            /\ {e[1], e[2]} \cap InteriorEnds # {}
       /\ \A e \in split_edges :
            RunsAlong(face_loops[k], e) => OnCrossingWalk(e)

\* C3 (orientation): every face loop emitted by the driver has strictly
\* positive signed area under the projector of the face
C3_PositiveArea ==
  pc = "record" => \A k \in 1..Len(face_loops) : Shoelace2(face_loops[k]) > 0

\* loops from splitFace and from mergeFacesAndHoles are emitted, a stitched
\* one among them
C3_Witness ==
  /\ pc = "record"
  /\ sf.ret = "cross"
  /\ \E k \in 1..Len(face_loops) : ~Simple(face_loops[k])
  /\ Len(face_loops) >= 3

\* C4 (error isolation): once generateFaceLoops has ended, every face has
\* loops in face_loops_out, and a face whose division met a fatal condition
\* has its base loop there
C4_ErrorIsolation ==
  pc \in {"done", "throw"} =>
    \A f \in 1..Len(Faces) :
      /\ \E k \in 1..Len(face_loops_out) : face_loops_out[k][1] = f
      /\ (pc = "throw" /\ f = fi) =>
           \E k \in 1..Len(face_loops_out) :
             face_loops_out[k] = <<f, base_loop>>

\* a face that was handed to generateOneFaceLoop and whose locals are those
\* of face fi
Dividing == pc \notin {"face", "done"}

\* C5 (base-loop assembly): the base loop is, for j = 0..n-1 in order,
\* vmap(v[j]) followed by divided_edges[e[j]] (if present), in stored order
\* when e[j].v1 == v[j] and reversed otherwise; every inserted vertex
\* occurs once and the loop has n plus the number of inserted vertices
C5_BaseLoopAssembly ==
  Dividing =>
    LET face == Faces[fi]
        n == Len(face.vertices)
        de == data.divided_edges
        has(j) == face.edges[j] \in DOMAIN de
        ins(j) == IF ~has(j) THEN <<>>
                  ELSE IF EdgeV1[face.edges[j]] = face.vertices[j]
                       THEN de[face.edges[j]]
                       ELSE Rev(de[face.edges[j]])
    IN /\ base_loop =
            Flatten([j \in 1..n |->
                       <<map_vertex(data.vmap, face.vertices[j])>> \o ins(j)])
       /\ \A j \in 1..n : \A k \in 1..Len(ins(j)) :
            Count(base_loop, ins(j)[k]) = 1
       /\ Len(base_loop) = n + SumSeq([j \in 1..n |-> Len(ins(j))])

\* face 2 runs along the edge AB from B to A: M and N are put in reversed
C5_Witness ==
  /\ pc = "record"
  /\ fi = 2
  /\ data.divided_edges = DivideMN
  /\ base_loop = <<2, 6, 5, 12, 11>>

\* face fi has no entry in face_split_edges, or every split edge of its
\* entry is a consecutive pair of the base loop, in either direction
Unsplit ==
  \/ fi \notin DOMAIN data.face_split_edges
  \/ \A e \in data.face_split_edges[fi] :
       \E k \in 1..Len(base_loop) :
         LET nx == IF k = Len(base_loop) THEN 1 ELSE k + 1
         IN {e[1], e[2]} = {base_loop[k], base_loop[nx]}

\* C6 (unsplit fast paths): for an unsplit face generateOneFaceLoop outputs
\* one loop, the base loop, and nothing else runs: no path is composed, no
\* crossing resolved, no loop split or merged
C6_UnsplitFastPath ==
  (Dividing /\ Unsplit) =>
    /\ pc = "record"
    /\ face_loops = <<base_loop>>
    /\ vertex_graph = <<>> /\ paths = <<>> /\ loops = <<>>
    /\ cross = NoCross /\ sf = NoSf

\* the only split edge of face 1 is D-C, the perimeter edge C-D reversed
C6_Witness ==
  /\ pc = "record"
  /\ fi = 1
  /\ fi \in DOMAIN data.face_split_edges
  /\ data.face_split_edges[fi] = {<<4, 3>>}
  /\ face_loops = <<base_loop>>

\* C7 (single-chord split): one split edge off the perimeter, with its ends
\* on the base loop at i1 < i2: the output is base[i1..i2] and
\* base[i2..N-1] ++ base[0..i1], of sizes i2-i1+1 and N+2-(i2-i1+1), each at
\* least 3, and their edges are the perimeter edges and the chord both ways
C7_SingleChordSplit ==
  (Dividing /\ IsSingleChord(base_loop, split_edges)) =>
    LET e == CHOOSE x \in split_edges : TRUE
        N == Len(base_loop)
        p1 == CHOOSE k \in 0..(N - 1) : base_loop[k + 1] = e[1]
        p2 == CHOOSE k \in 0..(N - 1) : base_loop[k + 1] = e[2]
        i1 == IF p1 < p2 THEN p1 ELSE p2
        i2 == IF p1 < p2 THEN p2 ELSE p1
        l1 == [k \in 1..(i2 - i1 + 1) |-> base_loop[i1 + k]]
        l2 == [k \in 1..(N - i2 + i1 + 1) |->
                 IF k <= N - i2 THEN base_loop[i2 + k]
                 ELSE base_loop[k - (N - i2)]]
    IN /\ pc = "record"
       /\ face_loops = <<l1, l2>>
       /\ Len(face_loops[1]) = i2 - i1 + 1
       /\ Len(face_loops[2]) = N + 2 - (i2 - i1 + 1)
       /\ Len(face_loops[1]) >= 3 /\ Len(face_loops[2]) >= 3
       /\ \A d \in Vertex \X Vertex : EdgeCount(face_loops, d) = DueCount(d)

\* the chord M-D of face 1, whose base loop has M on the edge AB
C7_Witness ==
  /\ pc = "record"
  /\ fi = 1
  /\ split_edges = {<<4, 5>>}
  /\ face_loops = <<<<5, 2, 3, 4>>, <<4, 12, 5>>>>

\* the split edges of face fi off the perimeter were composed into one
\* closed loop and no path: the loop touches no vertex of the base loop
InteriorLoop ==
  /\ pc = "record"
  /\ sf.ret = "driver"
  /\ Len(received.hole_loops) = 1

\* C8 (interior hole, S4) as stated: for split edges that form one closed
\* loop off the base loop the driver emits exactly one loop, the base loop
\* with the interior loop stitched in as a hole
C8_OneStitchedLoop ==
  InteriorLoop =>
    /\ Len(face_loops) = 1
    /\ Range(face_loops[1]) = Range(base_loop) \cup Range(received.hole_loops[1])

\* C8 (interior hole, S4), amended: the driver emits exactly two loops: the
\* base loop with the interior loop stitched in as a hole (the base loop up
\* to a vertex, the hole loop round from one of its vertices and back to
\* it, the rest of the base loop; its area the area of the base loop less
\* that of the hole), and the interior loop itself as a face loop
C8_StitchedLoopAndInnerFace ==
  InteriorLoop =>
    LET h == received.hole_loops[1]
    IN /\ Len(face_loops) = 2
       /\ \E a \in 1..Len(base_loop), b \in 1..Len(h) :
            face_loops[1] = SubSeq(base_loop, 1, a) \o SubSeq(h, b, Len(h))
                            \o SubSeq(h, 1, b)
                            \o SubSeq(base_loop, a, Len(base_loop))
       /\ Shoelace2(face_loops[1]) = Shoelace2(base_loop) + Shoelace2(h)
       /\ Shoelace2(h) < 0
       /\ face_loops[2] = received.face_loops[2]
       /\ Range(face_loops[2]) = Range(h)
       /\ Shoelace2(face_loops[2]) = 0 - Shoelace2(h)

\* the triangle P Q R inside face 1 has been stitched into the base loop
C8_Witness ==
  /\ InteriorLoop
  /\ Range(received.hole_loops[1]) = {7, 8, 9}
  /\ Len(face_loops[1]) = Len(base_loop) + 5

\* the only split edge of face fi off the perimeter joins a vertex of the
\* base loop to a vertex that is not on it
Dangling ==
  /\ Dividing
  /\ Cardinality(split_edges) = 1
  /\ Cardinality(InteriorEnds) = 1

\* C9 (dangling interior path, S6): the edge B-P is classified as a
\* non-crossing path, and the driver emits exactly one face loop, which
\* has every vertex of the base loop, B twice and P once
C9_DanglingPath ==
  Dangling =>
    LET P == CHOOSE v \in InteriorEnds : TRUE
        B == CHOOSE v \in Range(base_loop) :
               \E e \in split_edges : {e[1], e[2]} = {v, P}
    IN /\ pc = "cross" =>
            /\ {nc.path : nc \in cross.noncross} = {<<B, P>>}
            /\ Len(cross.cross) = 1
       /\ pc = "record" =>
            /\ Len(face_loops) = 1
            /\ Range(base_loop) \subseteq Range(face_loops[1])
            /\ Count(face_loops[1], B) = 2
            /\ Count(face_loops[1], P) = 1

\* two or more split edges off the perimeter, each from the same vertex of
\* the base loop to another vertex of the base loop
Fan ==
  /\ Dividing
  /\ Cardinality(split_edges) >= 2
  /\ InteriorEnds = {}
  /\ \E v \in Range(base_loop) : \A e \in split_edges : v \in {e[1], e[2]}

\* processCrossingEdges has been through all its divided base loops
Resolved == pc = "cross" /\ cross.i > Len(cross.divided)

\* C10 (chords meeting at a perimeter vertex, S5): for k chords from one
\* vertex the crossing resolver emits k + 1 loops, one per crossing path
\* and one for the temporary crossing of the boundary, and the perimeter
\* edges of the loops together are the perimeter edges of the base loop
C10_FanOfChords ==
  (Fan /\ Resolved) =>
    LET k == Cardinality(split_edges)
    IN /\ Len(cross.cross) = k + 1
       /\ Len(face_loops) = k + 1
       /\ \A e \in Vertex \X Vertex :
            IF e \in PerimeterEdges(base_loop)
            THEN EdgeCount(face_loops, e) = 1
            ELSE EdgeCount(face_loops, e) > 0 =>
                   (e \in split_edges \/ <<e[2], e[1]>> \in split_edges)

\* the chords M-D, N-D and B-D of face 1 have been resolved
C10_Witness ==
  /\ Fan
  /\ Resolved
  /\ split_edges = {<<4, 5>>, <<4, 6>>, <<2, 4>>}
  /\ Len(face_loops) = 4

\* the loops that face_loops_out holds for the face f, in order
LoopsOfFace(f) ==
  LET s == SelectSeq(face_loops_out, LAMBDA r : r[1] = f)
  IN [k \in 1..Len(s) |-> s[k][2]]

\* C11 (driver result): the loops of a face are appended paired with that
\* face and in the order generateOneFaceLoop left them, the faces follow
\* one another in the order of the polyhedron, and the count returned is
\* the sum of the sizes of all the loops appended
C11_DriverResult ==
  /\ generated_edges
       = SumSeq([k \in 1..Len(face_loops_out) |-> Len(face_loops_out[k][2])])
  /\ \A j, k \in 1..Len(face_loops_out) :
       j <= k => face_loops_out[j][1] <= face_loops_out[k][1]
  /\ \A k \in 1..Len(face_loops_out) :
       face_loops_out[k][1] \in 1..(fi - 1)
  /\ (pc \in {"face", "done"} /\ fi > 1) => LoopsOfFace(fi - 1) = face_loops

\* both faces are done, each of them divided into two loops
C11_Witness ==
  /\ pc = "done"
  /\ Len(LoopsOfFace(1)) >= 2
  /\ Len(LoopsOfFace(2)) >= 2
  /\ generated_edges >= 12

\* the projected loop on a grid twice as fine, and the points of that grid
\* around the faces
Doubled(l) == [i \in 1..Len(l) |-> <<2 * project(l[i])[1], 2 * project(l[i])[2]>>]

SamplePoints == (-1..13) \X (-7..13)

\* how many of the loops ls have the point p strictly inside
Covering(ls, p) ==
  Cardinality({k \in 1..Len(ls) : pointInPolySimple(Doubled(ls[k]), p)})

\* C12 (partition): a point that is on the boundary of no loop emitted for
\* a face lies inside exactly one of the loops when it lies inside the
\* face, and inside none of them when it does not
C12_Partition ==
  pc = "record" =>
    \A p \in SamplePoints :
      (\A k \in 1..Len(face_loops) : ~OnBoundary(Doubled(face_loops[k]), p))
        => Covering(face_loops, p)
             = (IF pointInPolyNotOut(Doubled(base_loop), p) THEN 1 ELSE 0)

\* the loops splitFace has extracted so far
SplitLoops == sf.face_loops \o sf.hole_loops

\* 1 when the directed edge e is still in the graph of splitFace
InGraph(e) == IF e \in graph THEN 1 ELSE 0

\* C13 (planar-graph splitter consumption): from a directed edge set in
\* which every vertex has as many inbound as outbound edges, a round of
\* splitFace never finds a vertex without an outbound edge, whichever edge
\* it starts from; it takes at least one edge out of the graph, each edge
\* it takes out goes into exactly one loop, the edges it walked before the
\* loop stay in the graph, and the graph it leaves is balanced again, so
\* the rounds end with the graph empty and every edge in exactly one loop
C13_SplitterConsumption ==
  [][(pc = "split" /\ graph # {}) =>
       /\ \A start \in graph : <<>> \notin WalkLoops(graph, <<start>>)
       /\ pc' = "split"
       /\ graph' \subseteq graph /\ graph' # graph
       /\ Balanced(graph')
       /\ Len(SplitLoops') = Len(SplitLoops) + 1
       /\ \A e \in Vertex \X Vertex :
            InGraph(e)' + EdgeCount(SplitLoops', e)
              = InGraph(e) + EdgeCount(SplitLoops, e)]_vars

\* six edges over four vertices have been consumed in two loops or more
C13_Witness ==
  /\ sf.ret = "splitFace"
  /\ graph = {}
  /\ Len(SplitLoops) >= 2
  /\ SumSeq([k \in 1..Len(SplitLoops) |-> Len(SplitLoops[k])]) >= 6
  /\ \A e \in Vertex \X Vertex : EdgeCount(SplitLoops, e) <= 1

\* the crossings of processCrossingEdges without the temporary one
RealCrossings ==
  LET N == Len(base_loop)
      temp == [e0 |-> 0, e1 |-> N - 1, path |-> <<base_loop[1], base_loop[N]>>]
  IN SelectSeq(cross.cross, LAMBDA c : c # temp)

\* in how many real crossing paths e is a consecutive pair, either way round
CrossingDue(e) ==
  Cardinality({n \in 1..Len(RealCrossings) : e \in BothWays(RealCrossings[n].path)})

\* C14 (division of the base loop): the divided base loops together hold
\* every directed edge of the base loop once, the closing edge included,
\* every edge of every real crossing path once in each direction, and no
\* other edge
C14_DivisionEdges ==
  pc = "cross" =>
    \A e \in Vertex \X Vertex :
      EdgeCount(cross.divided, e)
        = (IF e \in PerimeterEdges(base_loop) THEN 1 ELSE 0) + CrossingDue(e)

\* C15 (crossing normalisation): once the paths are partitioned every
\* crossing has edge_idx[0] <= edge_idx[1] < N, its path starts at the
\* base-loop vertex of the first position and ends at that of the second,
\* so neither assertion of the division step fails; every non-crossing
\* has edge_idx[1] = N
C15_CrossingNormalised ==
  LET N == Len(base_loop)
  IN /\ err # "base_loop[e] == path end"
     /\ cross.cross # <<>> =>
          /\ \A n \in 1..Len(cross.cross) :
               LET c == cross.cross[n]
               IN /\ c.e0 <= c.e1 /\ c.e1 < N
                  /\ c.path[1] = At(base_loop, c.e0)
                  /\ c.path[Len(c.path)] = At(base_loop, c.e1)
          /\ \A nc \in cross.noncross : nc.e1 = N
          /\ DivideOk(base_loop, cross.cross)

\* a face with a real crossing and a path that is not one has been
\* partitioned
C15_Witness ==
  /\ pc = "cross"
  /\ RealCrossings # <<>>
  /\ cross.noncross # {}

\* the ends of the paths that processCrossingEdges has attached to the base
\* loop: the position, and the vertex of the path next to the end
AttachedEnds ==
  LET N == Len(base_loop)
      all == Range(RealCrossings) \cup cross.noncross
  IN {[v |-> x.path[1], i |-> x.e0, adj |-> x.path[2], path |-> x.path]
        : x \in {y \in all : y.e0 < N}}
     \cup {[v |-> x.path[Len(x.path)], i |-> x.e1,
            adj |-> x.path[Len(x.path) - 1], path |-> x.path]
             : x \in {y \in all : y.e1 < N}}

\* C16 (angular dispatch): where one perimeter vertex is an end of several
\* paths, the end of each of them is attached at a position i of the base
\* loop that holds that vertex and whose sector B[i-1], B[i], B[i+1]
\* contains the vertex of the path next to that end (internalToAngle)
C16_AngularDispatch ==
  cross.cross # <<>> =>
    \A x \in AttachedEnds :
      (\E y \in AttachedEnds : y.v = x.v /\ y.path # x.path) =>
        LET N == Len(base_loop)
        IN /\ At(base_loop, x.i) = x.v
           /\ internalToAngle(project(At(base_loop, (x.i + N - 1) % N)),
                              project(At(base_loop, x.i)),
                              project(At(base_loop, (x.i + 1) % N)),
                              project(x.adj))

\* what composeEdgesIntoPaths has emitted so far
Emitted == paths \o loops

\* how often the edge between e[1] and e[2] is a consecutive pair of the
\* sequences, either way round
PairCount(seqs, e) ==
  SumSeq([k \in 1..Len(seqs) |->
    Cardinality({j \in 1..(Len(seqs[k]) - 1) :
      \/ <<seqs[k][j], seqs[k][j + 1]>> = e
      \/ <<seqs[k][j + 1], seqs[k][j]>> = e})])

\* 1 when the link between e[1] and e[2] is still in the adjacency map
LinkLeft(g, e) == IF e[1] \in DOMAIN g /\ e[2] \in g[e[1]] THEN 1 ELSE 0

\* what is left to do: the links, the endpoints, the first draw of one
ComposeMeasure ==
  2 * Cardinality({e \in Vertex \X Vertex :
                     e[1] <= e[2] /\ LinkLeft(vertex_graph, e) = 1})
  + Cardinality(endpoints)
  + (IF pc = "paths" /\ ep_cur = 0 THEN 1 ELSE 0)

\* C17 (composer coverage): whatever endpoint and neighbour it picks, every
\* step of composeEdgesIntoPaths passes its assertions and leaves less to
\* do, so it terminates; and after every step each edge of E is either
\* still a link of the adjacency map or a consecutive pair of exactly one
\* emitted path or loop, once, and nothing else is a link or a pair
C17_ComposerCoverage ==
  [][(pc \in {"paths", "loops"}) =>
       /\ pc' \in {"paths", "loops"}
       /\ ComposeMeasure' < ComposeMeasure
       /\ \A e \in Vertex \X Vertex :
            e[1] <= e[2] =>
              PairCount(Emitted', e) + LinkLeft(vertex_graph', e)
                = (IF e \in split_edges THEN 1 ELSE 0)]_vars

\* C18 (composer path endpoints) as stated: the first vertex of every
\* emitted path differs from its last one, unless the path is [v, v]
C18_DistinctEnds ==
  \A k \in 1..Len(paths) :
    \/ paths[k][1] # paths[k][Len(paths[k])]
    \/ Len(paths[k]) = 2

\* C18 (composer path endpoints), amended: an emitted path repeats no
\* vertex, except that a path may come back to the endpoint it started
\* from and stop there; such a closed path is the path [v, v] of an edge
\* from v to v, or has four entries or more
C18_DistinctEndsOrClosed ==
  \A k \in 1..Len(paths) :
    \A i, j \in 1..Len(paths[k]) :
      (i < j /\ paths[k][i] = paths[k][j]) =>
        /\ i = 1 /\ j = Len(paths[k])
        /\ \/ Len(paths[k]) >= 4
           \/ Len(paths[k]) = 2 /\ <<paths[k][1], paths[k][1]>> \in split_edges

\* composeEdgesIntoPaths has finished; one of its paths is [v, v] and
\* another one is closed with four entries or more
C18_Witness ==
  /\ pc = "loops"
  /\ DOMAIN vertex_graph = {}
  /\ \E k \in 1..Len(paths) :
       paths[k][1] = paths[k][Len(paths[k])] /\ Len(paths[k]) >= 4
  /\ \E k \in 1..Len(paths) :
       paths[k][1] = paths[k][Len(paths[k])] /\ Len(paths[k]) = 2

\* the number of edges of E at the vertex v
Degree(v) == Cardinality({e \in split_edges : v \in {e[1], e[2]}})

\* v is an endpoint of E with the extra endpoints X (the base loop)
IsEndpoint(v) ==
  Degree(v) # 2 \/ (v \in Range(base_loop) /\ Degree(v) >= 1)

\* C19 (composer path structure): every emitted path has at least two
\* vertices, starts and ends at an endpoint (a vertex whose degree in E is
\* not 2, or a member of X that occurs in E), so that the assertion on
\* path.back() holds, and each of its internal vertices has degree 2 in E
\* and is not in X
C19_PathStructure ==
  /\ err # "endpoints.find(path.back())"
  /\ \A k \in 1..Len(paths) :
       LET p == paths[k]
       IN /\ Len(p) >= 2
          /\ IsEndpoint(p[1]) /\ IsEndpoint(p[Len(p)])
          /\ \A i \in 2..(Len(p) - 1) :
               Degree(p[i]) = 2 /\ p[i] \notin Range(base_loop)

\* C20 (composer residual loops): once the endpoints are used up every
\* vertex left in the adjacency map has exactly two neighbours, so the
\* assertions of the loop phase hold, and every loop extracted comes back
\* to its first vertex, has three distinct vertices or more and repeats no
\* vertex but the first one at its end
C20_ResidualLoops ==
  /\ err # "(*p).second.size() == 2"
  /\ pc = "loops" =>
       \A v \in DOMAIN vertex_graph : Cardinality(vertex_graph[v]) = 2
  /\ \A k \in 1..Len(loops) :
       LET l == loops[k]
       IN /\ l[1] = l[Len(l)]
          /\ Len(l) >= 4
          /\ \A i, j \in 1..(Len(l) - 1) : l[i] = l[j] => i = j

\* C21 (splitter loop classification): the loops splitFace has put in its
\* face-loop list are those of negative signed area, the loops it has put
\* in its hole-loop list those of zero or positive signed area, and a round
\* appends the loop it extracts to one of the two lists
C21_LoopClassification ==
  [][(pc = "split" /\ graph # {} /\ pc' = "split") =>
       LET nf == Len(sf'.face_loops) - Len(sf.face_loops)
           nh == Len(sf'.hole_loops) - Len(sf.hole_loops)
       IN /\ nf + nh = 1 /\ nf >= 0 /\ nh >= 0
          /\ nf = 1 =>
               signedArea(Projected(sf'.face_loops[Len(sf'.face_loops)])) < 0
          /\ nh = 1 =>
               signedArea(Projected(sf'.hole_loops[Len(sf'.hole_loops)])) >= 0]_vars

\* splitFace has finished with a face loop and a hole loop of area zero
\* (an edge walked there and back)
C21_Witness ==
  /\ sf.ret = "splitFace"
  /\ graph = {}
  /\ sf.face_loops # <<>>
  /\ \E k \in 1..Len(sf.hole_loops) :
       signedArea(Projected(sf.hole_loops[k])) = 0

\* C22 (splitter reversal rule): whatever the order of the outbound edges
\* of e.tgt in their list, the scan from the edge e takes the reversal edge
\* only when it is the one outbound edge of e.tgt, and else takes the edge
\* that is not the reversal and has the smallest ANG(in - out.ang); this is
\* the edge the walk follows
C22_ReversalRule ==
  pc = "split" =>
    \A e \in graph :
      \A opts \in ListOrders(OutboundEdges(graph, e[2])) :
        LET out == ScanOut(opts, e, 1, [out |-> <<>>, best |-> <<>>])
            fwd == {o \in Range(opts) : o[2] # e[1]}
            u == Sub2(project(e[1]), project(e[2]))
            dir(x) == Sub2(project(x[2]), project(x[1]))
        IN /\ (opts # <<>>) => out \in Range(opts)
           /\ (out # <<>> /\ out[2] = e[1]) => Len(opts) = 1
           /\ fwd # {} =>
                /\ out \in fwd
                /\ \A o \in fwd : ~AngLess(u, dir(o), dir(out))
           /\ (opts # <<>>) => NextEdges(graph, e) = {out}

\* a loop has been extracted, and the walk comes next to a vertex with
\* several outbound edges, one of them the reversal, or to a vertex whose
\* one outbound edge is the reversal
C22_Witness ==
  /\ pc = "split"
  /\ SplitLoops # <<>>
  /\ \E e \in graph :
       /\ Cardinality(OutboundEdges(graph, e[2])) >= 2
       /\ <<e[2], e[1]>> \in graph
  /\ \E e \in graph : OutboundEdges(graph, e[2]) = {<<e[2], e[1]>>}

(***************************************************************************)
(* mergeFacesAndHoles on its own: lines 570-724 applied to lists of face   *)
(* loops and hole loops as splitFace leaves them.  A loop of negative      *)
(* signed area is a face loop and any other loop is a hole loop (lines     *)
(* 300-316), and no directed edge occurs twice in the loops of one call    *)
(* (splitFace removes every edge it walks).                                *)
(***************************************************************************)
MaxFaceLoops == 2
MaxHoleLoops == 2

\* the loops to choose from: the square ABCD, the square with the spike
\* M-S, the quadrilateral MNRD, the triangle PQR both ways round, the
\* triangle PSR, and edges walked there and back
MergeLoops ==
  { <<1, 2, 3, 4>>, <<1, 5, 10, 5, 2, 3, 4>>, <<5, 6, 9, 4>>, <<7, 8, 9>>,
    <<9, 8, 7>>, <<7, 10, 9>>, <<10, 7>>, <<1, 5>>, <<2, 6>>, <<4, 9>>,
    <<5, 6>>, <<8, 7, 8, 9>> }

MergeFaces == {l \in MergeLoops : signedArea(Projected(l)) < 0}
MergeHoles == {l \in MergeLoops : signedArea(Projected(l)) >= 0}

\* the lists without repetition of at least lo and at most hi loops of S
LoopLists(S, lo, hi) ==
  UNION {ListOrders(T) :
           T \in {U \in SUBSET S : Cardinality(U) >= lo /\ Cardinality(U) <= hi}}

\* no directed edge occurs twice in the loops of ls
EdgeDisjoint(ls) ==
  /\ \A i \in 1..Len(ls) :
       Cardinality(Range(LoopEdges(ls[i]))) = Len(ls[i])
  /\ \A i, j \in 1..Len(ls) :
       i # j => Range(LoopEdges(ls[i])) \cap Range(LoopEdges(ls[j])) = {}

MergeInit ==
  /\ data = [vmap |-> (1 :> 12), divided_edges |-> NoDivision,
             face_split_edges |-> <<>>]
  /\ fi = 1
  /\ pc = "merge"
  /\ err = ""
  /\ base_loop = <<>>
  /\ split_edges = {}
  /\ face_loops = <<>>
  /\ vertex_graph = <<>>
  /\ endpoints = {}
  /\ ep_cur = 0
  /\ paths = <<>>
  /\ loops = <<>>
  /\ cross = NoCross
  /\ graph = {}
  /\ \E fl \in LoopLists(MergeFaces, 1, MaxFaceLoops),
        hl \in LoopLists(MergeHoles, 0, MaxHoleLoops) :
       /\ EdgeDisjoint(fl \o hl)
       /\ sf = [face_loops |-> fl, hole_loops |-> hl, ret |-> "splitFace"]
  /\ received = NoCall
  /\ face_loops_out = <<>>
  /\ generated_edges = 0

MergeSpec == MergeInit /\ [][MergeFacesAndHoles]_vars

(***************************************************************************)
(* Properties of mergeFacesAndHoles, checked in MergeSpec and in Spec.     *)
(***************************************************************************)
\* the runs that a call receiving the loops of in can take and that get as
\* far as lines 692-722: the embedding, the patches and the assignment of
\* each
Runs(in) ==
  {run \in MergeRuns(in.face_loops, in.hole_loops) :
     ~run.cc.fail /\ ~run.aa.hang}

\* the places <<f, k>> of the lists face_holes of the run that hold hole h
AssignedPlaces(in, run, h) ==
  {p \in (1..Len(in.face_loops)) \X (1..Len(in.hole_loops)) :
     /\ p[2] <= Len(run.aa.face_holes[p[1]])
     /\ run.aa.face_holes[p[1]][p[2]] = h}

\* mergeFacesAndHoles has been called with hole loops
MergeEntered == received.hole_loops # <<>>

\* a call of mergeFacesAndHoles with hole loops has returned
MergeReturned == pc \in {"record", "cross"} /\ received.hole_loops # <<>>

\* C23: embedding resolution terminates.  For every list of face loops and
\* hole loops that mergeFacesAndHoles is entered with, the assignment loop
\* of lines 650-672 ends (the call never stays in it), and when it ends
\* every hole that has at least one containing face is in the list of holes
\* of exactly one face, and no hole is in two lists or twice in one.
C23_EmbeddingTerminates ==
  /\ pc # "hang"
  /\ MergeEntered =>
       \A run \in Runs(received) : \A h \in 1..Len(received.hole_loops) :
         /\ Cardinality(AssignedPlaces(received, run, h)) <= 1
         /\ run.cc.containing_faces[h] # <<>>
              => Cardinality(AssignedPlaces(received, run, h)) = 1

\* the patches that the loop of lines 612-646 makes from hole i on in the
\* run, fl being the face loops as the patches before have left them
RECURSIVE PatchTrace(_, _, _, _)
PatchTrace(in, run, fl, i) ==
  IF i > Len(in.hole_loops) THEN <<>>
  ELSE IF \/ run.cc.containing_faces[i] # <<>>
          \/ i \notin DOMAIN run.cc.hole_shared_vertices
       THEN PatchTrace(in, run, fl, i + 1)
       ELSE LET f == Min(DOMAIN run.cc.hole_shared_vertices[i])
                hv == run.cc.hole_shared_vertices[i][f]
                after == PatchHole(fl[f], in.hole_loops[i], hv[2], hv[1])
            IN <<[hole |-> i, f |-> f, f_idx |-> hv[2], h_idx |-> hv[1],
                  before |-> fl[f], after |-> after]>>
               \o PatchTrace(in, run, [fl EXCEPT ![f] = after], i + 1)

\* the face loops of the call that have a vertex in common with hole i
SharingFaces(in, i) ==
  {j \in 1..Len(in.face_loops) :
     Range(in.face_loops[j]) \cap Range(in.hole_loops[i]) # {}}

\* C24: hole patching.  In every call of mergeFacesAndHoles the holes
\* patched are those without a containing face that share a vertex with a
\* face loop; each is patched into the lowest-indexed face loop that shares
\* a vertex with it, at a position f_idx of that loop which at the time of
\* the insertion holds the vertex h[h_idx], by putting h[h_idx+1..end],
\* h[0..h_idx] right after it, which gives a loop of |f| + |h| vertices; so
\* also when several holes go into one face loop.
C24_HolePatching ==
  MergeReturned =>
    \A run \in Runs(received) :
      LET trace == PatchTrace(received, run, received.face_loops, 1)
      IN /\ {trace[k].hole : k \in 1..Len(trace)}
              = {i \in 1..Len(received.hole_loops) :
                   /\ run.cc.containing_faces[i] = <<>>
                   /\ SharingFaces(received, i) # {}}
         /\ \A k \in 1..Len(trace) :
              LET t == trace[k]
                  h == received.hole_loops[t.hole]
              IN /\ t.f = Min(SharingFaces(received, t.hole))
                 /\ t.f_idx < Len(t.before)
                 /\ At(t.before, t.f_idx) = At(h, t.h_idx)
                 /\ t.after = Copy(t.before, 0, t.f_idx + 1)
                              \o Copy(h, t.h_idx + 1, Len(h))
                              \o Copy(h, 0, t.h_idx + 1)
                              \o Copy(t.before, t.f_idx + 1, Len(t.before))
                 /\ Len(t.after) = Len(t.before) + Len(h)

(***************************************************************************)
(* Properties of compareFaceLoopAndHoleLoop, applied by computeContainment *)
(* to every face loop and hole loop of a call of mergeFacesAndHoles.       *)
(***************************************************************************)
\* what lines 476-487 can get for face loop j and hole loop i of the call:
\* one result for each pair of index vectors that std::sort can give
Compared(j, i) ==
  LET f == received.face_loops[j]
      h == received.hole_loops[i]
  IN {[f_sort |-> fs, h_sort |-> hs,
       out |-> compareFaceLoopAndHoleLoop(f, fs, h, hs)]
      : fs \in IndexSort(f), hs \in IndexSort(h)}

\* C25: face/hole comparison flags.  For every face loop f and hole loop h
\* that computeContainment has compared, with index vectors that sort them
\* by vertex handle: shares_vertex is true exactly when some vertex is in
\* both loops; unmatched_h_idx is -1 exactly when every vertex of h is in
\* f, and otherwise is a position of h whose vertex is not in f.
C25_ComparisonFlags ==
  MergeEntered =>
    \A j \in 1..Len(received.face_loops), i \in 1..Len(received.hole_loops) :
      \A c \in Compared(j, i) :
        LET f == received.face_loops[j]
            h == received.hole_loops[i]
        IN /\ c.out.shares_vertex <=> (Range(f) \cap Range(h) # {})
           /\ (c.out.unmatched_h_idx = -1) <=> (Range(h) \subseteq Range(f))
           /\ c.out.unmatched_h_idx # -1 =>
                /\ c.out.unmatched_h_idx \in 0..(Len(h) - 1)
                /\ At(h, c.out.unmatched_h_idx) \notin Range(f)

\* a call has returned in which one hole shares all its vertices with a face
\* loop and none with another, and a second hole shares some vertices with
\* a face loop, with an unmatched vertex found in the walk and one found
\* after it
C25_Witness ==
  /\ MergeReturned
  /\ \E j \in 1..Len(received.face_loops), i \in 1..Len(received.hole_loops) :
       \E c \in Compared(j, i) :
         c.out.shares_vertex /\ c.out.unmatched_h_idx = -1
  /\ \E j \in 1..Len(received.face_loops), i \in 1..Len(received.hole_loops) :
       \E c \in Compared(j, i) :
         ~c.out.shares_vertex /\ c.out.unmatched_h_idx # -1
  /\ \E j \in 1..Len(received.face_loops), i \in 1..Len(received.hole_loops) :
       \E c \in Compared(j, i) :
         /\ c.out.shares_vertex
         /\ c.out.unmatched_h_idx # -1
         /\ \A v \in Range(received.face_loops[j]) :
              v < At(received.hole_loops[i], c.out.unmatched_h_idx)
  /\ \E j \in 1..Len(received.face_loops), i \in 1..Len(received.hole_loops) :
       \E c \in Compared(j, i) :
         /\ c.out.shares_vertex
         /\ c.out.unmatched_h_idx # -1
         /\ \E v \in Range(received.face_loops[j]) :
              v > At(received.hole_loops[i], c.out.unmatched_h_idx)

\* the vertices that face loop j and hole loop i of the call share
SharedVertices(j, i) ==
  Range(received.face_loops[j]) \cap Range(received.hole_loops[i])

Max(S) == CHOOSE x \in S : \A y \in S : x >= y

\* the position of the loop s that the index vector sort lists first among
\* those that hold the vertex v
FirstSorted(s, sort, v) ==
  At(sort, Min({I \in 0..(Len(s) - 1) : At(s, At(sort, I)) = v}))

\* the pair reported in c for face loop j and hole loop i is the pair of
\* positions at which the walk meets the shared vertex v
ReportsPairOf(c, j, i, v) ==
  /\ c.out.f_idx = FirstSorted(received.face_loops[j], c.f_sort, v)
  /\ c.out.h_idx = FirstSorted(received.hole_loops[i], c.h_sort, v)
  /\ At(received.face_loops[j], c.out.f_idx)
       = At(received.hole_loops[i], c.out.h_idx)

\* C26 as stated: shared-vertex pair.  When a face loop and a hole loop
\* that computeContainment has compared share a vertex, the pair
\* (f_idx, h_idx) reported is the first shared pair that the address-ordered
\* walk meets, the pair of the shared vertex of least address, and
\* f[f_idx] == h[h_idx].
C26_FirstSharedPair ==
  MergeEntered =>
    \A j \in 1..Len(received.face_loops), i \in 1..Len(received.hole_loops) :
      SharedVertices(j, i) # {}
        => \A c \in Compared(j, i) :
             ReportsPairOf(c, j, i, Min(SharedVertices(j, i)))

\* C26 amended: shared-vertex pair.  When a face loop and a hole loop that
\* computeContainment has compared share a vertex, the pair (f_idx, h_idx)
\* reported is the last shared pair that the address-ordered walk meets,
\* the pair of the shared vertex of greatest address, and
\* f[f_idx] == h[h_idx].
C26_LastSharedPair ==
  MergeEntered =>
    \A j \in 1..Len(received.face_loops), i \in 1..Len(received.hole_loops) :
      SharedVertices(j, i) # {}
        => \A c \in Compared(j, i) :
             ReportsPairOf(c, j, i, Max(SharedVertices(j, i)))

\* a call has returned in which a hole loop and a face loop share three
\* vertices, so that the walk has met three shared pairs
C26_Witness ==
  /\ MergeReturned
  /\ \E j \in 1..Len(received.face_loops), i \in 1..Len(received.hole_loops) :
       /\ Cardinality(SharedVertices(j, i)) = 3
       /\ \A c \in Compared(j, i) : c.out.shares_vertex

\* the face loops of the call that a hole is patched into in the run
PatchedFaces(in, run) ==
  LET trace == PatchTrace(in, run, in.face_loops, 1)
  IN {trace[k].f : k \in 1..Len(trace)}

\* C27: merge output frame.  A call of mergeFacesAndHoles that returns
\* leaves in f_loops exactly one loop for each face loop it received, in
\* the same order (the loop at place j holds the vertices of the face loop
\* received at place j), leaves h_loops empty, so that no hole loop is
\* among the loops handed on, and gives back unchanged every face loop that
\* had no hole assigned to it and none patched into it.
C27_MergeFrame ==
  [][(pc = "merge" /\ pc' \in {"record", "cross"}) =>
       /\ Len(sf'.face_loops) = Len(sf.face_loops)
       /\ sf'.hole_loops = <<>>
       /\ face_loops' = Returned(sf'.face_loops)
       /\ \A j \in 1..Len(sf.face_loops) :
            /\ Range(sf.face_loops[j]) \subseteq Range(sf'.face_loops[j])
            /\ sf'.face_loops[j] \notin Range(sf.hole_loops)
            /\ (\A run \in Runs(sf) :
                  /\ run.aa.face_holes[j] = <<>>
                  /\ j \notin PatchedFaces(sf, run))
                 => sf'.face_loops[j] = sf.face_loops[j]]_vars

\* a call has returned that had two face loops and two hole loops, one hole
\* assigned to a face loop and one patched into a face loop, and has given
\* back one face loop longer than it was and the other as it was
C27_Witness ==
  /\ MergeReturned
  /\ pc = "record"
  /\ Len(received.face_loops) = 2
  /\ Len(received.hole_loops) = 2
  /\ Len(face_loops) = 2
  /\ sf.face_loops = face_loops
  /\ sf.hole_loops = <<>>
  /\ \E j \in 1..2 :
       /\ face_loops[j] = received.face_loops[j]
       /\ Len(face_loops[3 - j]) > Len(received.face_loops[3 - j])
  /\ \E run \in Runs(received) :
       /\ \E j \in 1..2 : run.aa.face_holes[j] # <<>>
       /\ PatchedFaces(received, run) # {}

====
